---------------------------- MODULE Spec2Model ----------------------------
(***************************************************************************)
(* Model of the retrieval-augmented generation core of the wellness        *)
(* backend: the response cache (CacheService), the cancellable completion  *)
(* provider client (MistralApiService), the vector/keyword search          *)
(* (VectorSearchService) and the orchestrator (RAGService).                *)
(*                                                                         *)
(* Text is modelled as a sequence of one-character strings, time as whole  *)
(* seconds, scores as thousandths (900 stands for 0.9).                    *)
(***************************************************************************)
EXTENDS Integers, Sequences, FiniteSets, TLC

VARIABLES
    keyLog,        \* generateCacheKey calls made so far: <<args, key>> records
    store,         \* the Redis store behind CacheService: key -> entry or NoEntry
    now,           \* wall clock, in seconds
    lastSet,       \* observer: per key, the last set not followed by delete(key)/clear()
    ret,           \* return value of the last completed CacheService / RAGService call
    docs,          \* the wellness document collection (sequence, insertion order)
    contexts,      \* the persisted ConversationContext documents
    activeGenerations, \* MistralApiService.activeGenerations: id -> AbortController
    proc,          \* the generateContextualResponse calls: one record per request slot
    useFallback,   \* MistralApiService.useFallback: no API key was configured
    chats,         \* the persisted Chat documents, by chat id
    sends,         \* the ChatService.sendMessage calls: one record per request slot
    chatCache      \* the store behind ChatCacheService: key -> value

chatVars == <<chats, sends, chatCache>>

vars == <<keyLog, store, now, lastSet, ret, docs, contexts, activeGenerations, proc, useFallback,
          chatVars>>

None == "none"

(***************************************************************************)
(* Text                                                                    *)
(***************************************************************************)
Ascii ==
    ("A" :> 65) @@ ("B" :> 66) @@ ("E" :> 69) @@ ("O" :> 79) @@ ("P" :> 80) @@
    ("S" :> 83) @@ ("T" :> 84) @@
    ("a" :> 97) @@ ("b" :> 98) @@ ("c" :> 99) @@ ("d" :> 100) @@ ("e" :> 101) @@
    ("g" :> 103) @@ ("h" :> 104) @@ ("i" :> 105) @@ ("k" :> 107) @@
    ("l" :> 108) @@ ("m" :> 109) @@ ("n" :> 110) @@ ("o" :> 111) @@
    ("p" :> 112) @@ ("q" :> 113) @@ ("r" :> 114) @@ ("s" :> 115) @@
    ("t" :> 116) @@ ("u" :> 117) @@ ("w" :> 119) @@ ("x" :> 120) @@
    (" " :> 32) @@ (":" :> 58) @@ ("{" :> 123) @@ ("}" :> 125) @@
    ("[" :> 91) @@ ("]" :> 93) @@ ("\"" :> 34) @@ ("1" :> 49) @@ ("2" :> 50) @@
    ("3" :> 51)

\* String.prototype.charCodeAt for one character
charCodeAt(c) == Ascii[c]

\* String.prototype.toLowerCase
LowerOf ==
    ("A" :> "a") @@ ("B" :> "b") @@ ("E" :> "e") @@ ("O" :> "o") @@
    ("P" :> "p") @@ ("S" :> "s") @@ ("T" :> "t")

toLowerCase(s) ==
    [i \in 1..Len(s) |-> IF s[i] \in DOMAIN LowerOf THEN LowerOf[s[i]] ELSE s[i]]

\* String.prototype.includes: k occurs in s as a contiguous substring
includes(s, k) ==
    \E i \in 0..(Len(s) - Len(k)) : \A j \in 1..Len(k) : s[i + j] = k[j]

RECURSIVE Concat(_)
Concat(ss) == IF ss = <<>> THEN <<>> ELSE Head(ss) \o Concat(Tail(ss))

(***************************************************************************)
(* CacheService.generateCacheKey and simpleHash                            *)
(***************************************************************************)
Two16 == 65536

\* (x | 0): x wrapped to a signed 16-bit half, used to keep 32-bit words in range
Wrap16(x) == ((x + 32768) % Two16) - 32768

\* One round of simpleHash: hash = (hash << 5) - hash + char; hash = hash & hash.
\* Both h and the result are signed 32-bit words.  The word is computed in
\* two 16-bit halves: (h << 5) - h + c is 31*h + c modulo 2^32.
HashStep(h, c) ==
    LET lo    == h % Two16
        hi    == (h - lo) \div Two16
        t     == (lo * 32) - lo + c
        newlo == t % Two16
        carry == (t - newlo) \div Two16
        newhi == Wrap16((hi * 32) - hi + carry)
    IN  newhi * Two16 + newlo

RECURSIVE HashFrom(_, _)
HashFrom(h, s) ==
    IF s = <<>> THEN h
    ELSE LET next == HashStep(h, charCodeAt(Head(s)))
         IN  \* the loop assigns hash before the next round: next is a value here
             IF next \in Int THEN HashFrom(next, Tail(s)) ELSE 0

Base36Digits ==
    <<"0","1","2","3","4","5","6","7","8","9","a","b","c","d","e","f","g","h",
      "i","j","k","l","m","n","o","p","q","r","s","t","u","v","w","x","y","z">>

\* Math.abs(hash).toString(36), most significant digit first.  n is the signed
\* word; its magnitude is read off without negating it (|-2^31| = 2^31).
RECURSIVE AbsToString36(_)
AbsToString36(n) ==
    LET d == IF n >= 0 THEN n % 36 ELSE (36 - (n % 36)) % 36
        q == IF n >= 0 THEN (n - d) \div 36 ELSE (0 - (n + d)) \div 36
    IN  IF q = 0 THEN <<Base36Digits[d + 1]>>
        ELSE AbsToString36(q) \o <<Base36Digits[d + 1]>>

simpleHash(str) == AbsToString36(HashFrom(0, str))

\* JSON.stringify of a CacheFilters object (None: the argument is absent)
NoFilters == [present |-> FALSE, categories |-> <<>>]
EmptyFilters == [present |-> TRUE, categories |-> <<>>]
CategoryFilters(c) == [present |-> TRUE, categories |-> <<c>>]

Quote(s) == <<"\"">> \o s \o <<"\"">>

stringifyFilters(f) ==
    IF f.categories = <<>> THEN <<"{", "}">>
    ELSE <<"{">> \o Quote(<<"c","a","t","e","g","o","r","i","e","s">>) \o <<":", "[">>
         \o Quote(f.categories[1]) \o <<"]", "}">>

generateCacheKey(query, filters, userId) ==
    LET filterString == IF filters.present THEN stringifyFilters(filters) ELSE <<>>
        userString   == IF userId # <<>> THEN <<":","u","s","e","r",":">> \o userId ELSE <<>>
        queryHash    == simpleHash(query \o filterString \o userString)
    IN  <<"r","a","g",":","s","e","a","r","c","h",":">> \o queryHash

(***************************************************************************)
(* CacheService over the Redis store                                       *)
(*                                                                         *)
(* store maps each key present in Redis to the parsed CacheEntry           *)
(* [value, timestamp, ttl]; timestamps and ttl are in seconds.             *)
(***************************************************************************)
NoValue == [null |-> TRUE]      \* the null a cache miss returns

Remove(f, k) == [x \in (DOMAIN f) \ {k} |-> f[x]]

\* JSON.stringify(cacheEntry) then JSON.parse: numbers, strings, booleans and
\* arrays of them come back as written; the key field is written but never read.
CacheEntry(value, timestamp, ttl) == [value |-> value, timestamp |-> timestamp, ttl |-> ttl]

\* The validity test of get: Date.now() - timestamp.getTime() < parsed.ttl * 1000
EntryValidLate(entry, t) == t - entry.timestamp <= entry.ttl
EntryValid(entry, t) == t - entry.timestamp < entry.ttl

\* CacheService.get: <<returned value, store afterwards, whether redis.del was issued>>
get(st, key, t) ==
    IF key \notin DOMAIN st THEN <<NoValue, st, FALSE>>
    ELSE IF st[key].ttl = 0 THEN <<NoValue, Remove(st, key), TRUE>>
    ELSE IF EntryValid(st[key], t) THEN <<st[key].value, st, FALSE>>
    ELSE <<NoValue, Remove(st, key), TRUE>>

\* CacheService.set: redis.setex(key, ttl, JSON.stringify(entry)) with timestamp new Date()
setIfAbsent(st, key, value, ttl, t) ==
    IF key \in DOMAIN st THEN st ELSE (key :> CacheEntry(value, t, ttl)) @@ st
set(st, key, value, ttl, t) == (key :> CacheEntry(value, t, ttl)) @@ st

\* CacheService.delete: redis.del(key)
delete(st, key) == Remove(st, key)

\* CacheService.clear: redis.flushdb()
clear(st) == <<>>

(***************************************************************************)
(* Numbers: scores are thousandths; NaN is kept apart from every score     *)
(***************************************************************************)
Unit == 1000
NaN == -1000000

IsNaN(x) == x = NaN

\* a + b, a / b, Math.min, Math.max and >= as JavaScript evaluates them on numbers
\* that may be NaN; Div(n, d) is n / d in thousandths of the quotient's unit.
Add(a, b) == IF IsNaN(a) \/ IsNaN(b) THEN NaN ELSE a + b
Div(n, d) == IF IsNaN(n) \/ IsNaN(d) \/ (n = 0 /\ d = 0) THEN NaN ELSE n \div d
MathMin(a, b) == IF IsNaN(a) \/ IsNaN(b) THEN NaN ELSE IF a < b THEN a ELSE b
MathMax(a, b) == IF IsNaN(a) \/ IsNaN(b) THEN NaN ELSE IF a > b THEN a ELSE b
Geq(a, b) == ~IsNaN(a) /\ ~IsNaN(b) /\ a >= b

(***************************************************************************)
(* EmbeddingService.calculateSimilarity                                    *)
(***************************************************************************)
RECURSIVE Dot(_, _)
Dot(a, b) == IF a = <<>> THEN 0 ELSE Head(a) * Head(b) + Dot(Tail(a), Tail(b))

\* Math.sqrt on the sums of squares the model's vectors have (perfect squares)
Sqrt(n) == CHOOSE r \in 0..n : r * r = n

\* dotProduct / (magnitude1 * magnitude2), in thousandths.  Equal lengths are the
\* caller's duty (vectors of one provider); a zero vector gives 0 / 0.
calculateSimilarity(embedding1, embedding2) ==
    Div(Dot(embedding1, embedding2) * Unit,
        Sqrt(Dot(embedding1, embedding1)) * Sqrt(Dot(embedding2, embedding2)))

(***************************************************************************)
(* VectorSearchService                                                     *)
(***************************************************************************)
\* String.prototype.split(' ')
RECURSIVE SplitFrom(_, _)
SplitFrom(s, word) ==
    IF s = <<>> THEN <<word>>
    ELSE IF Head(s) = " " THEN <<word>> \o SplitFrom(Tail(s), <<>>)
    ELSE SplitFrom(Tail(s), Append(word, Head(s)))

split(s) == SplitFrom(s, <<>>)

\* Array.prototype.filter(...).length, given for each element whether it passes
Count(passes) == Cardinality({i \in 1..Len(passes) : passes[i]})

\* VectorSearchService.calculateRelevance
calculateRelevance(doc, query) ==
    LET queryLower     == toLowerCase(query)
        titlePart      == IF includes(toLowerCase(doc.title), queryLower) THEN 300 ELSE 0
        keywordMatches == Count([i \in 1..Len(doc.keywords) |->
                                    includes(toLowerCase(doc.keywords[i]), queryLower)])
        keywordPart    == Div(keywordMatches * 400, Len(doc.keywords))
        contentWords   == split(toLowerCase(doc.content))
        queryWords     == split(queryLower)
        contentMatches == Count([j \in 1..Len(queryWords) |->
                                    \E i \in 1..Len(contentWords) :
                                        includes(contentWords[i], queryWords[j])])
        contentPart    == Div(contentMatches * 300, Len(queryWords))
    IN  MathMin(Add(Add(titlePart, keywordPart), contentPart), Unit)

\* The Mongo filter built from the optional allow-lists: a list restricts only
\* when it is given and not empty.  (evidenceLevels and sources are built the
\* same way; the requests drawn here leave them out.)
MatchesFilters(doc, filters) ==
    (filters.present /\ filters.categories # <<>>) =>
        \E i \in 1..Len(filters.categories) : filters.categories[i] = doc.category

Take(seq, n) == SubSeq(seq, 1, IF n < Len(seq) THEN n ELSE Len(seq))

\* The ranking key of every sort: a.score * 0.7 + a.relevance * 0.3 (times 10)
CombinedScore(r) ==
    IF IsNaN(r.score) \/ IsNaN(r.relevance) THEN NaN ELSE r.score * 7 + r.relevance * 3

\* Array.prototype.sort with (a, b) => combined(b) - combined(a): stable, descending;
\* a NaN difference is read as 0 (the two compare equal).
RanksBefore(x, y) ==
    ~IsNaN(CombinedScore(x)) /\ ~IsNaN(CombinedScore(y)) /\ CombinedScore(x) > CombinedScore(y)

RECURSIVE InsertSorted(_, _)
InsertSorted(sorted, r) ==
    IF sorted = <<>> THEN <<r>>
    ELSE IF RanksBefore(r, sorted[Len(sorted)])
         THEN Append(InsertSorted(SubSeq(sorted, 1, Len(sorted) - 1), r), sorted[Len(sorted)])
         ELSE Append(sorted, r)

RECURSIVE SortByCombined(_)
SortByCombined(rs) ==
    IF rs = <<>> THEN <<>>
    ELSE InsertSorted(SortByCombined(SubSeq(rs, 1, Len(rs) - 1)), rs[Len(rs)])

\* The document snapshot placed in a SearchResult: every field but the embedding
Snapshot(doc) ==
    [id |-> doc.id, title |-> doc.title, content |-> doc.content, category |-> doc.category,
     keywords |-> doc.keywords, userId |-> doc.userId]

SearchResult(doc, score, relevance) ==
    [document |-> Snapshot(doc), score |-> score, relevance |-> relevance]

\* A variant of the search that keeps every fetched document
searchSimilarDocumentsUnfiltered(coll, query, queryEmbedding, filters, limit, threshold) ==
    LET documents == Take(SelectSeq(coll, LAMBDA d : MatchesFilters(d, filters)), limit * 2)
        results   == [i \in 1..Len(documents) |->
                        SearchResult(documents[i],
                                     calculateSimilarity(queryEmbedding, documents[i].embedding),
                                     calculateRelevance(documents[i], query))]
    IN  Take(SortByCombined(results), limit)

\* VectorSearchService.searchSimilarDocuments (queryEmbedding: the embedding the
\* provider returned for the query)
searchSimilarDocuments(coll, query, queryEmbedding, filters, limit, threshold) ==
    LET documents == Take(SelectSeq(coll, LAMBDA d : MatchesFilters(d, filters)), limit * 2)
        kept      == SelectSeq(documents,
                               LAMBDA d : Geq(calculateSimilarity(queryEmbedding, d.embedding), threshold))
        results   == [i \in 1..Len(kept) |->
                        SearchResult(kept[i], calculateSimilarity(queryEmbedding, kept[i].embedding),
                                     calculateRelevance(kept[i], query))]
    IN  Take(SortByCombined(results), limit)

\* The text index of the collection: a document matches $text when one of the
\* query's words is a word of its title, keywords or content; textScore weighs a
\* title word above a keyword above a content word.
TextScore(doc, query) ==
    LET terms  == SelectSeq(split(toLowerCase(query)), LAMBDA w : w # <<>>)
        inSeq(w, ws) == \E i \in 1..Len(ws) : ws[i] = w
        title  == Count([j \in 1..Len(terms) |-> inSeq(terms[j], split(toLowerCase(doc.title)))])
        keys   == Count([j \in 1..Len(terms) |->
                            inSeq(terms[j], [i \in 1..Len(doc.keywords) |->
                                                toLowerCase(doc.keywords[i])])])
        body   == Count([j \in 1..Len(terms) |-> inSeq(terms[j], split(toLowerCase(doc.content)))])
    IN  title * 10 + keys * 5 + body

RECURSIVE InsertByTextScore(_, _, _)
InsertByTextScore(sorted, d, query) ==
    IF sorted = <<>> THEN <<d>>
    ELSE IF TextScore(d, query) > TextScore(sorted[Len(sorted)], query)
         THEN Append(InsertByTextScore(SubSeq(sorted, 1, Len(sorted) - 1), d, query),
                     sorted[Len(sorted)])
         ELSE Append(sorted, d)

RECURSIVE SortByTextScore(_, _)
SortByTextScore(ds, query) ==
    IF ds = <<>> THEN <<>>
    ELSE InsertByTextScore(SortByTextScore(SubSeq(ds, 1, Len(ds) - 1), query), ds[Len(ds)], query)

\* VectorSearchService.textSearch
textSearch(coll, query, filters, limit) ==
    LET found == SelectSeq(coll, LAMBDA d : MatchesFilters(d, filters) /\ TextScore(d, query) > 0)
        documents == Take(SortByTextScore(found, query), limit)
    IN  [i \in 1..Len(documents) |->
            SearchResult(documents[i], calculateRelevance(documents[i], query), 500)]

\* Map.get / Map.set on the id-keyed map of combineAndRerank, kept in insertion order
IndexOfId(rs, id) ==
    IF \E i \in 1..Len(rs) : rs[i].document.id = id
    THEN CHOOSE i \in 1..Len(rs) : rs[i].document.id = id
    ELSE 0

MapSet(rs, r) ==
    LET i == IndexOfId(rs, r.document.id)
    IN  IF i = 0 THEN Append(rs, r) ELSE [rs EXCEPT ![i] = r]

\* A variant of the merge that keeps the vector result untouched
MergeTextKeepingFirst(rs, r) ==
    IF IndexOfId(rs, r.document.id) = 0 THEN Append(rs, r) ELSE rs

\* the merge of one text result into the map: average the scores, keep the
\* larger relevance, or add the result when its id is new
MergeText(rs, r) ==
    LET i == IndexOfId(rs, r.document.id)
    IN  IF i = 0 THEN Append(rs, r)
        ELSE [rs EXCEPT ![i].score = Div(Add(rs[i].score, r.score), 2),
                        ![i].relevance = MathMax(rs[i].relevance, r.relevance)]

\* vectorResults.forEach((result) => combined.set(result.document.id, result))
RECURSIVE SetAll(_, _)
SetAll(acc, rs) ==
    IF rs = <<>> THEN acc ELSE SetAll(MapSet(acc, Head(rs)), Tail(rs))

\* textResults.forEach(...)
RECURSIVE MergeAll(_, _)
MergeAll(acc, rs) ==
    IF rs = <<>> THEN acc ELSE MergeAll(MergeText(acc, Head(rs)), Tail(rs))

\* VectorSearchService.combineAndRerank
combineAndRerank(vectorResults, textResults) ==
    SortByCombined(MergeAll(SetAll(<<>>, vectorResults), textResults))

\* VectorSearchService.hybridSearch
hybridSearch(coll, query, queryEmbedding, filters, limit) ==
    Take(combineAndRerank(searchSimilarDocuments(coll, query, queryEmbedding, filters, limit, 500),
                          textSearch(coll, query, filters, limit)),
         limit)

(***************************************************************************)
(* RAGService.searchDocuments                                              *)
(***************************************************************************)
SearchTTL == 3600

\* Number.prototype.toString for the limits in use
DigitOf == <<"1", "2", "3", "4", "5", "6", "7", "8", "9">>

\* `search:${query.query}:${query.userId}:${query.limit}`
SearchCacheKey(request) ==
    <<"s","e","a","r","c","h",":">> \o request.query \o <<":">>
        \o (IF request.userId = <<>> THEN <<"undefined">> ELSE request.userId)
        \o <<":">> \o <<DigitOf[request.limit]>>

\* A RAGResponse, reduced to the fields that do not measure elapsed time
Response(query, results, model, confidence) ==
    [query |-> query, response |-> <<>>, results |-> results,
     totalResults |-> Len(results), model |-> model, confidence |-> confidence,
     cacheHit |-> FALSE]

\* searchDocuments without the cache lookup
searchDocumentsUncached(st, coll, request, queryEmbedding, t) ==
    LET results  == hybridSearch(coll, request.query, queryEmbedding, request.filters, request.limit)
        response == Response(request.query, results, "mistral-embed", 800)
    IN  <<response, set(st, SearchCacheKey(request), response, SearchTTL, t)>>

\* searchDocuments: <<response returned, store afterwards>>.  queryEmbedding is
\* what the embedding provider returns for request.query.
searchDocuments(st, coll, request, queryEmbedding, t) ==
    LET cacheKey == SearchCacheKey(request)
        cached   == get(st, cacheKey, t)
        results  == hybridSearch(coll, request.query, queryEmbedding, request.filters, request.limit)
        response == Response(request.query, results, "mistral-embed", 800)
    IN  IF cached[1] # NoValue THEN <<cached[1], cached[2]>>
        ELSE <<response, set(cached[2], cacheKey, response, SearchTTL, t)>>

(***************************************************************************)
(* RAGService.searchUserRelevantDocuments                                  *)
(***************************************************************************)
\* RAGService.calculateUserDocumentRelevance.  healthConditions is the list of
\* the conversation context (empty for every context this service creates).
calculateUserDocumentRelevance(doc, query, healthConditions) ==
    LET queryLower     == toLowerCase(query)
        titlePart      == IF includes(toLowerCase(doc.title), queryLower) THEN 300 ELSE 0
        keywordMatches == Count([i \in 1..Len(doc.keywords) |->
                                    includes(toLowerCase(doc.keywords[i]), queryLower)])
        keywordPart    == Div(keywordMatches * 400, Len(doc.keywords))
        contentWords   == split(toLowerCase(doc.content))
        queryWords     == split(queryLower)
        contentMatches == Count([j \in 1..Len(queryWords) |->
                                    \E i \in 1..Len(contentWords) :
                                        includes(contentWords[i], queryWords[j])])
        contentPart    == Div(contentMatches * 300, Len(queryWords))
        conditionMatches == Count([i \in 1..Len(healthConditions) |->
                                      includes(toLowerCase(doc.content),
                                               toLowerCase(healthConditions[i]))])
        conditionPart  == IF Len(healthConditions) > 0
                          THEN Div(conditionMatches * 200, Len(healthConditions))
                          ELSE 0
    IN  MathMin(Add(Add(Add(titlePart, keywordPart), contentPart), conditionPart), Unit)

\* The user's own documents as search results: the document literal built here
\* has no embedding property
UserResults(coll, query, userId, healthConditions) ==
    LET own == SelectSeq(coll, LAMBDA d : d.userId = userId)
    IN  [i \in 1..Len(own) |->
            SearchResult(own[i], calculateUserDocumentRelevance(own[i], query, healthConditions), 800)]

\* result.score *= 0.7
ReduceScoreAgain(r) ==
    [r EXCEPT !.score = IF IsNaN(@) THEN NaN ELSE (((@ * 7) \div 10) * 7) \div 10]

ReduceScore(r) == [r EXCEPT !.score = IF IsNaN(@) THEN NaN ELSE (@ * 7) \div 10]

\* RAGService.combineUserAndGeneralResults
combineUserAndGeneralResults(queryEmbedding, userResults, generalResults) ==
    LET withEmbedding == SelectSeq(userResults, LAMBDA r : "embedding" \in DOMAIN r.document)
        rescored == [i \in 1..Len(withEmbedding) |->
                        [withEmbedding[i] EXCEPT
                            !.score = calculateSimilarity(queryEmbedding,
                                                          withEmbedding[i].document.embedding)]]
        kept     == SelectSeq(rescored, LAMBDA r : Geq(r.score, 500))
        general  == [i \in 1..Len(generalResults) |-> ReduceScore(generalResults[i])]
    IN  Take(SortByCombined(kept \o general), 5)

\* searchUserRelevantDocuments: <<results, store afterwards>>
searchUserRelevantDocuments(st, coll, query, userId, healthConditions, queryEmbedding, t) ==
    LET userResults   == UserResults(coll, query, userId, healthConditions)
        generalSearch == searchDocuments(st, coll,
                             [query |-> query, userId |-> userId, filters |-> NoFilters, limit |-> 3],
                             queryEmbedding, t)
    IN  <<combineUserAndGeneralResults(queryEmbedding, userResults, generalSearch[1].results),
          generalSearch[2]>>

(***************************************************************************)
(* RAGService.generateContextualResponse: texts and conversation contexts  *)
(***************************************************************************)
\* const stopKeywords = ['stop', 'end', 'quit', 'exit', 'terminate', 'halt']
StopKeywordsWithoutHalt ==
    << <<"s","t","o","p">>, <<"e","n","d">>, <<"q","u","i","t">>, <<"e","x","i","t">>,
       <<"t","e","r","m","i","n","a","t","e">> >>

StopKeywords ==
    << <<"s","t","o","p">>, <<"e","n","d">>, <<"q","u","i","t">>, <<"e","x","i","t">>,
       <<"t","e","r","m","i","n","a","t","e">>, <<"h","a","l","t">> >>

\* stopKeywords.some((keyword) => query.toLowerCase().includes(keyword))
isStopSignal(query) ==
    \E i \in 1..Len(StopKeywords) : includes(toLowerCase(query), StopKeywords[i])

\* The fixed replies.  A run of characters that takes part in no comparison is
\* kept as one element; the word "stop" is spelled out where a reply has it.
StopAcknowledgement ==
    <<"I understand you want to ", "s", "t", "o", "p",
      ". I'll respect that and won't continue this conversation.",
      " Feel free to start a new chat when you're ready.">>

ConversationStopped ==
    <<"This conversation has been ", "s", "t", "o", "p", "p", "e", "d",
      ". I won't continue responding.",
      " Please start a new chat if you need assistance.">>

TechnicalIssues ==
    <<"I'm having technical issues right now.",
      " For immediate concerns, please consult with a healthcare professional.">>

CannotGenerate == <<"I apologize, but I cannot generate a response at this time.">>

Message(role, content) == [role |-> role, content |-> content]

\* `session_${Date.now()}`
SessionFromClock(t) == <<"session_", t>>

NoContext == [found |-> FALSE]

\* conversationContextModel.findOne({ userId, sessionId }); the collection is
\* keyed by sessionId, which carries the unique index
findOne(ctxs, userId, sessionId) ==
    IF sessionId \in DOMAIN ctxs /\ ctxs[sessionId].userId = userId
    THEN [found |-> TRUE, doc |-> ctxs[sessionId]]
    ELSE NoContext

\* getOrCreateConversationContext: the document in memory.  loaded counts the
\* messages it had when it was read; the ones after that were pushed locally.
getOrCreateConversationContext(ctxs, userId, sessionId) ==
    LET existing == findOne(ctxs, userId, sessionId)
    IN  IF existing.found
        THEN [isNew |-> FALSE, userId |-> userId, sessionId |-> sessionId,
              messages |-> existing.doc.messages, loaded |-> Len(existing.doc.messages),
              messageCount |-> existing.doc.messageCount, healthConditions |-> <<>>]
        ELSE [isNew |-> TRUE, userId |-> userId, sessionId |-> sessionId,
              messages |-> <<>>, loaded |-> 0, messageCount |-> 0, healthConditions |-> <<>>]

NoLocalContext ==
    [isNew |-> FALSE, userId |-> <<>>, sessionId |-> <<>>, messages |-> <<>>, loaded |-> 0,
     messageCount |-> 0, healthConditions |-> <<>>]

\* messages[messages.length - 1], when there is one
LastMessageIgnored(messages) == FALSE

LastMessageSaysStop(messages) ==
    /\ messages # <<>>
    /\ includes(toLowerCase(messages[Len(messages)].content), <<"s","t","o","p">>)

\* Document.prototype.save: a new document is inserted, and the unique index on
\* sessionId rejects a second one; a loaded document sends the messages pushed
\* since it was read as one $push.  <<saved, contexts afterwards>>
saveWhole(ctxs, local) ==
    IF local.isNew
    THEN IF local.sessionId \in DOMAIN ctxs THEN <<FALSE, ctxs>>
         ELSE <<TRUE, (local.sessionId :>
                         [userId |-> local.userId, sessionId |-> local.sessionId,
                          messages |-> local.messages,
                          messageCount |-> local.messageCount]) @@ ctxs>>
    ELSE IF local.sessionId \notin DOMAIN ctxs THEN <<FALSE, ctxs>>
         ELSE <<TRUE, [ctxs EXCEPT ![local.sessionId].messages = local.messages]>>
save(ctxs, local) ==
    LET pushed == SubSeq(local.messages, local.loaded + 1, Len(local.messages))
    IN  IF local.isNew
        THEN IF local.sessionId \in DOMAIN ctxs THEN <<FALSE, ctxs>>
             ELSE <<TRUE, (local.sessionId :>
                             [userId |-> local.userId, sessionId |-> local.sessionId,
                              messages |-> local.messages,
                              messageCount |-> local.messageCount]) @@ ctxs>>
        ELSE IF local.sessionId \notin DOMAIN ctxs THEN <<FALSE, ctxs>>
             ELSE <<TRUE, [ctxs EXCEPT ![local.sessionId].messages = @ \o pushed]>>

\* saveConversationContext: lastUpdated is set and the document saved
saveConversationContext(ctxs, local) == save(ctxs, local)

(***************************************************************************)
(* ChatService: chat documents                                             *)
(***************************************************************************)
\* No Chat document (findOne found none, or none is held yet)
NoChat == [found |-> FALSE]

\* chatModel.findOne({ _id: chatId, userId })
findChat(chs, userId, chatId) ==
    IF chatId \in DOMAIN chs /\ chs[chatId].userId = userId
    THEN [found |-> TRUE, id |-> chatId, userId |-> userId, title |-> chs[chatId].title,
          status |-> chs[chatId].status, messages |-> chs[chatId].messages,
          version |-> chs[chatId].version]
    ELSE NoChat

\* `New Chat - ${new Date().toLocaleDateString()}`
TemporaryTitle == <<"New Chat - ", "date">>

\* new this.chatModel({ userId, title, tags, context, messages: [] }); status
\* takes the schema default
NewChat(userId) ==
    [found |-> TRUE, id |-> <<>>, userId |-> userId, title |-> TemporaryTitle,
     status |-> "active", messages |-> <<>>, version |-> 0]

\* The ObjectId a new Chat document gets
NewChatId(chs) == <<"c", DigitOf[Cardinality(DOMAIN chs) + 1]>>

\* chat.save() in sendMessage: <<the saved document, chats afterwards, saved>>.
\* A new document is inserted under a fresh id.  A loaded one had its message
\* array assigned as a whole, so the update carries the version it was loaded
\* with and increments it: it writes the array, and the status when the stop
\* path changed it, only if the stored document still has that version, and is
\* rejected otherwise (as it is when the document is gone).
saveChat(chs, chat) ==
    IF chat.id = <<>>
    THEN LET id == NewChatId(chs)
         IN  <<[chat EXCEPT !.id = id],
               (id :> [userId |-> chat.userId, title |-> chat.title, status |-> chat.status,
                       messages |-> chat.messages, version |-> 0]) @@ chs,
               TRUE>>
    ELSE IF chat.id \notin DOMAIN chs \/ chs[chat.id].version # chat.version
    THEN <<chat, chs, FALSE>>
    ELSE <<[chat EXCEPT !.version = @ + 1],
           [chs EXCEPT ![chat.id].messages = chat.messages,
                       ![chat.id].version = @ + 1,
                       ![chat.id].status = IF chat.status = "archived" THEN "archived" ELSE @],
           TRUE>>

\* ChatService.getOrCreateConversationContext: a missing context is created
\* empty and saved at once.  <<ok, document in memory, contexts afterwards>>
getOrCreateSavedContext(ctxs, userId, sessionId) ==
    LET local == getOrCreateConversationContext(ctxs, userId, sessionId)
        saved == save(ctxs, local)
    IN  IF ~local.isNew THEN <<TRUE, local, ctxs>>
        ELSE IF saved[1] THEN <<TRUE, [local EXCEPT !.isNew = FALSE], saved[2]>>
        ELSE <<FALSE, local, ctxs>>

\* conversationContext.messages.push({ role, content, timestamp })
pushMessage(local, role, content) ==
    [local EXCEPT !.messages = Append(@, Message(role, content))]

\* conversationContext.messageCount = conversationContext.messages.length, then
\* save(): the pushed messages go out as one $push, messageCount as a $set.
\* <<saved, contexts afterwards>>
saveCounted(ctxs, local) ==
    LET counted == [local EXCEPT !.messageCount = Len(local.messages)]
        saved   == save(ctxs, counted)
    IN  IF saved[1] /\ ~counted.isNew
        THEN <<TRUE, [saved[2] EXCEPT ![counted.sessionId].messageCount =
                                          counted.messageCount]>>
        ELSE saved

\* ChatCacheService keys
MessagesKey(chatId) == <<"chat", chatId, "messages">>
MetadataKey(chatId) == <<"chat", chatId, "metadata">>
ChatListKey(userId) == <<"user", userId, "chats">>

\* cacheChatMessages, cacheChatMetadata and invalidateUserChatListCache, as
\* sendMessage calls them one after the other on the saved chat
cacheAfterSend(cache, saved) ==
    Remove((MessagesKey(saved.id) :> [messages |-> saved.messages,
                                      messageCount |-> Len(saved.messages)])
           @@ (MetadataKey(saved.id) :> [title |-> saved.title])
           @@ cache,
           ChatListKey(saved.userId))

ChatStoppedByUser == <<"Chat ", "s", "t", "o", "p", "p", "e", "d", " by user request">>

(***************************************************************************)
(* MistralApiService: the registry of abort controllers                    *)
(***************************************************************************)
NoGenerationId == <<>>

\* if (generationId) this.activeGenerations.set(generationId, abortController)
\* The controller made by a call is named by the call's slot.
Register(registry, generationId, controller) ==
    IF generationId # NoGenerationId THEN (generationId :> controller) @@ registry
    ELSE registry

\* if (generationId) this.activeGenerations.delete(generationId), after the
\* provider answered
CleanupAfterResponse(registry, generationId) ==
    IF generationId # NoGenerationId THEN Remove(registry, generationId) ELSE registry

\* the same, in the catch block
CleanupOmitted(registry, generationId) == registry

CleanupAfterError(registry, generationId) ==
    IF generationId # NoGenerationId THEN Remove(registry, generationId) ELSE registry

isGenerationActive(registry, generationId) == generationId \in DOMAIN registry

getActiveGenerationIds(registry) == DOMAIN registry

(***************************************************************************)
(* Bounds and input sets                                                   *)
(***************************************************************************)
MaxQueryLen == 2     \* longest query text drawn for generateCacheKey
MaxKeyCalls == 2     \* how many generateCacheKey calls are logged

MaxTTL == 2          \* largest ttl passed to CacheService.set directly
MaxNow == 3          \* the one-second clock ticks stop here
MaxDocs == 1         \* documents users may add to the collection
MaxLimit == 2        \* the limit of the search requests drawn
NumProcs == 2        \* generateContextualResponse calls made in a run, each in its own slot
MaxChatTicks == 1    \* milliseconds that pass while sendMessage calls run
MaxFetched == 3      \* documents in a collection searched on its own
MaxTextLen == 4      \* characters of a text given to chunkDocument

Procs == 1..NumProcs

KeyAlphabet == {"A", "B", "a"}

RECURSIVE TextsUpTo(_)
TextsUpTo(n) ==
    IF n = 0 THEN {<<>>}
    ELSE LET shorter == TextsUpTo(n - 1)
         IN  shorter \cup {t \o <<c>> : t \in shorter, c \in KeyAlphabet}

KeyQueries == TextsUpTo(MaxQueryLen) \cup {<<"a", ":", "u", "s", "e", "r", ":", "B">>}
KeyFilters == {NoFilters, EmptyFilters, CategoryFilters(<<"a">>)}
KeyUsers   == {<<>>, <<"B">>}

\* A request slot: pc is where its generateContextualResponse call stands
\* ("idle": none; "retrieving": before the document search; "calling": the
\* provider request is out; "done": returned).  registered, cancelled and
\* failed record what happened to the provider call; result is the return value.
IdleProc ==
    [pc |-> "idle", query |-> <<>>, userId |-> <<>>, generationId |-> NoGenerationId,
     local |-> NoLocalContext, aborted |-> FALSE, registered |-> FALSE,
     cancelled |-> FALSE, failed |-> FALSE, result |-> <<>>]

\* A sendMessage call: pc is where it stands ("idle": none; "loaded": the chat
\* and its context are read and the user message pushed; "generating": inside
\* generateChatResponse; "replied": generateChatResponse returned; "done").
IdleSend ==
    [pc |-> "idle", userId |-> <<>>, content |-> <<>>, isNewChat |-> FALSE,
     chatId |-> <<>>, chat |-> NoChat, local |-> NoLocalContext, ai |-> <<>>,
     result |-> "none"]

(***************************************************************************)
(* Initial state                                                           *)
(***************************************************************************)
NoRet == [op |-> "none"]
NoRequest == [query |-> <<>>, userId |-> <<>>, filters |-> NoFilters, limit |-> 0]

\* The general knowledge base loaded before any request: documents without owner
GeneralDocs ==
    << [id |-> <<"g", "1">>, title |-> <<"t","e","a">>,
        content |-> <<"t","e","a"," ","c","a","l","m","s">>,
        keywords |-> << <<"t","e","a">> >>, category |-> "lifestyle",
        embedding |-> <<3, 4>>, userId |-> <<>>] >>

Init ==
    /\ keyLog = <<>>
    /\ store = <<>>
    /\ now = 0
    /\ lastSet = <<>>
    /\ ret = NoRet
    /\ docs = GeneralDocs
    /\ contexts = <<>>
    /\ activeGenerations = <<>>
    /\ proc = [p \in Procs |-> IdleProc]
    /\ useFallback \in BOOLEAN
    /\ chats = <<>>
    /\ sends = [p \in Procs |-> IdleSend]
    /\ chatCache = <<>>

(***************************************************************************)
(* Key derivation: a caller derives a key for (query, filters, userId)     *)
(***************************************************************************)
GenerateCacheKeyCall(query, filters, userId) ==
    /\ Len(keyLog) < MaxKeyCalls
    /\ keyLog' = Append(keyLog, [query |-> query, filters |-> filters, userId |-> userId,
                                 key |-> generateCacheKey(query, filters, userId)])
    /\ UNCHANGED <<store, now, lastSet, ret, docs, contexts, activeGenerations, proc, useFallback, chatVars>>

NextKey ==
    \E q \in KeyQueries, f \in KeyFilters, u \in KeyUsers : GenerateCacheKeyCall(q, f, u)

SpecKey == Init /\ [][NextKey]_vars

KeyArgs(e) == <<e.query, e.filters, e.userId>>

\* C10 (as claimed): two generateCacheKey calls with distinct
\* (query, filters, userId) triples never yield the same key.
C10_DistinctInputsDistinctKeys ==
    \A i, j \in 1..Len(keyLog) :
        KeyArgs(keyLog[i]) # KeyArgs(keyLog[j]) => keyLog[i].key # keyLog[j].key

\* C10, the one-input form: changing only the query changes the key.
C10_QueryChangeChangesKey ==
    \A i, j \in 1..Len(keyLog) :
        ( /\ keyLog[i].query # keyLog[j].query
          /\ keyLog[i].filters = keyLog[j].filters
          /\ keyLog[i].userId = keyLog[j].userId ) => keyLog[i].key # keyLog[j].key


(***************************************************************************)
(* Direct use of the cache: get / set / delete / clear, the clock, and     *)
(* Redis dropping a key whose setex time has run out                       *)
(***************************************************************************)
CacheKeys == {<<"k", "1">>, <<"k", "2">>}

\* Response payloads a caller may store
CacheValues == {Response(<<"a">>, <<>>, "mistral-embed", 800),
                Response(<<"b">>, <<>>, "mistral-embed", 800)}

CacheGet(key) ==
    LET r == get(store, key, now)
    IN  /\ ret' = [op |-> "get", key |-> key, value |-> r[1], del |-> r[3]]
        /\ store' = r[2]
        /\ UNCHANGED <<keyLog, now, lastSet, docs, contexts, activeGenerations, proc, useFallback, chatVars>>

CacheSet(key, value, ttl) ==
    /\ store' = set(store, key, value, ttl, now)
    /\ lastSet' = (key :> [value |-> value, timestamp |-> now, ttl |-> ttl,
                            replaced |-> key \in DOMAIN store /\ store[key].value # value,
                            by |-> NoRequest])
                   @@ lastSet
    /\ ret' = [op |-> "set", key |-> key]
    /\ UNCHANGED <<keyLog, now, docs, contexts, activeGenerations, proc, useFallback, chatVars>>

CacheDelete(key) ==
    /\ store' = delete(store, key)
    /\ lastSet' = Remove(lastSet, key)
    /\ ret' = [op |-> "delete", key |-> key]
    /\ UNCHANGED <<keyLog, now, docs, contexts, activeGenerations, proc, useFallback, chatVars>>

CacheClear ==
    /\ store' = clear(store)
    /\ lastSet' = <<>>
    /\ ret' = [op |-> "clear"]
    /\ UNCHANGED <<keyLog, now, docs, contexts, activeGenerations, proc, useFallback, chatVars>>

\* One second passes
Tick ==
    /\ now < MaxNow
    /\ now' = now + 1
    /\ UNCHANGED <<keyLog, store, lastSet, ret, docs, contexts, activeGenerations, proc, useFallback, chatVars>>

\* Redis itself expires a key once the seconds given to setex have passed on its
\* own clock, which may lag the application's: the key may outlive now - timestamp >= ttl.
RedisExpire(key) ==
    /\ key \in DOMAIN store
    /\ now - store[key].timestamp >= store[key].ttl
    /\ store' = Remove(store, key)
    /\ UNCHANGED <<keyLog, now, lastSet, ret, docs, contexts, activeGenerations, proc, useFallback, chatVars>>

NextCache ==
    \/ \E k \in CacheKeys : CacheGet(k)
    \/ \E k \in CacheKeys, v \in CacheValues, ttl \in 1..MaxTTL : CacheSet(k, v, ttl)
    \/ \E k \in CacheKeys : CacheDelete(k)
    \/ CacheClear
    \/ Tick
    \/ \E k \in CacheKeys : RedisExpire(k)

SpecCache == Init /\ [][NextCache]_vars

\* C8: get(key) returns a value iff an entry for key exists and
\* now - timestamp < ttl, and then it is the entry's value; an entry that
\* exists with now - timestamp >= ttl is reported absent and deleted from the store.
C8_GetHonoursExpiry ==
    [][\A k \in CacheKeys : CacheGet(k) =>
         LET present == k \in DOMAIN store
             fresh   == present /\ now - store[k].timestamp < store[k].ttl
         IN  /\ (ret'.value # NoValue) <=> fresh
             /\ fresh => ret'.value = store[k].value /\ store' = store
             /\ (present /\ ~fresh) => k \notin DOMAIN store'
       ]_vars

\* C8 witness: a get found an expired entry, returned absent and deleted it, and a
\* later read of the same key misses as well.
C8_Witness ==
    /\ ret.op = "get"
    /\ ret.value = NoValue
    /\ ret.del
    /\ ret.key \in DOMAIN lastSet
    /\ now - lastSet[ret.key].timestamp >= lastSet[ret.key].ttl
    /\ ret.key \notin DOMAIN store

Users == {<<"u", "1">>, <<"u", "2">>}

QueryTea == <<"t", "e", "a">>
QueryNap == <<"n", "a", "p">>
SearchQueries == {QueryTea}

\* What the embedding provider returns for a text (EmbeddingService.generateEmbedding)
generateEmbedding(text) ==
    IF text = QueryTea THEN <<3, 4>>
    ELSE IF text = QueryNap THEN <<4, 3>>
    ELSE IF includes(text, QueryNap) THEN <<4, 3>>
    ELSE <<3, 4>>

\* Documents a user may add (RAGWellnessDocumentType without id: one is generated)
UserDocInputs ==
    { [id |-> <<>>, title |-> <<"n","a","p">>, content |-> <<"n","a","p"," ","l","o","g">>,
       keywords |-> << <<"n","a","p">> >>, category |-> "symptom"] }

SearchFilters == {NoFilters, CategoryFilters("symptom")}

Requests ==
    [query : SearchQueries, userId : Users, filters : SearchFilters, limit : {MaxLimit}]

\* new Types.ObjectId().toString()
NewObjectId(coll) == <<"oid", DigitOf[Len(coll) + 1]>>

\* RAGService.addUserWellnessDocument
AddUserWellnessDocument(userId, document) ==
    /\ Len(docs) < Len(GeneralDocs) + MaxDocs
    /\ LET embedding  == generateEmbedding(document.title \o <<" ">> \o document.content)
           documentId == IF document.id # <<>> THEN document.id ELSE NewObjectId(docs)
       IN  docs' = Append(docs, [id |-> documentId, title |-> document.title,
                                 content |-> document.content, keywords |-> document.keywords,
                                 category |-> document.category, embedding |-> embedding,
                                 userId |-> userId])
    /\ ret' = [op |-> "addUserWellnessDocument", userId |-> userId]
    /\ UNCHANGED <<keyLog, store, now, lastSet, contexts, activeGenerations, proc, useFallback, chatVars>>

\* The observer's view of a searchDocuments call: a miss ends in a set
LastSetAfterSearch(request, before, after) ==
    LET key == SearchCacheKey(request)
    IN  IF key \in DOMAIN after /\ (key \notin DOMAIN before \/ after[key] # before[key])
        THEN (key :> [value |-> after[key].value, timestamp |-> after[key].timestamp,
                      ttl |-> after[key].ttl, replaced |-> FALSE, by |-> request]) @@ lastSet
        ELSE lastSet

\* RAGService.searchDocuments, called by the controller
SearchDocuments(request) ==
    LET r == searchDocuments(store, docs, request, generateEmbedding(request.query), now)
    IN  /\ store' = r[2]
        /\ lastSet' = LastSetAfterSearch(request, store, r[2])
        /\ ret' = [op |-> "searchDocuments", request |-> request, response |-> r[1]]
        /\ UNCHANGED <<keyLog, now, docs, contexts, activeGenerations, proc, useFallback, chatVars>>

\* The envelope of the catch block of searchDocuments
ErrorResponse(query) == Response(query, <<>>, "fallback", 0)

\* RAGService.searchDocuments when something after the cache lookup throws: the
\* lookup missed (and removed an expired entry), the catch block answers
SearchDocumentsThrown(request) ==
    LET cached == get(store, SearchCacheKey(request), now)
    IN  /\ cached[1] = NoValue
        /\ store' = cached[2]
        /\ ret' = [op |-> "searchDocuments", request |-> request,
                   response |-> ErrorResponse(request.query)]
        /\ UNCHANGED <<keyLog, now, lastSet, docs, contexts, activeGenerations, proc,
                       useFallback, chatVars>>

\* Just under the response TTL passes at once, at most twice
LongWait ==
    /\ now < 2 * (SearchTTL - 1)
    /\ now' = now + SearchTTL - 1
    /\ UNCHANGED <<keyLog, store, lastSet, ret, docs, contexts, activeGenerations, proc, useFallback, chatVars>>

NextSearch ==
    \/ \E u \in Users, d \in UserDocInputs : AddUserWellnessDocument(u, d)
    \/ \E q \in Requests : SearchDocuments(q)
    \/ \E q \in Requests : SearchDocumentsThrown(q)
    \/ \E k \in DOMAIN store : CacheDelete(k)
    \/ CacheClear
    \/ LongWait
    \/ \E k \in DOMAIN store : RedisExpire(k)

SpecSearch == Init /\ [][NextSearch]_vars

\* C1 (as claimed): no result of a search made for user U is a document owned by
\* another user; documents without owner may be returned to everyone.
C1_ResultsOwnedByCallerOrGeneral ==
    ret.op = "searchDocuments" =>
        \A i \in 1..Len(ret.response.results) :
            ret.response.results[i].document.userId \in {<<>>, ret.request.userId}

\* C6 (as claimed): a searchDocuments call repeating the (query, filters, userId,
\* limit) of the call that filled the cache entry, within the TTL and with no
\* delete/clear in between, returns the same results and reports a cache hit.
C6_SecondCallIsCacheHit ==
    [][\A q \in Requests : SearchDocuments(q) =>
         LET key == SearchCacheKey(q)
         IN  ( /\ key \in DOMAIN store
               /\ key \in DOMAIN lastSet
               /\ lastSet[key].by = q
               /\ now - lastSet[key].timestamp < SearchTTL )
             => /\ ret'.response.results = lastSet[key].value.results
                /\ ret'.response.cacheHit = TRUE
      ]_vars

\* C6, the part about the results alone
C6_SecondCallSameResults ==
    [][\A q \in Requests : SearchDocuments(q) =>
         LET key == SearchCacheKey(q)
         IN  ( /\ key \in DOMAIN store
               /\ key \in DOMAIN lastSet
               /\ lastSet[key].by = q
               /\ now - lastSet[key].timestamp < SearchTTL )
             => ret'.response.results = lastSet[key].value.results
      ]_vars

\* C7 (as claimed): the cache entry a searchDocuments request reads or
\* overwrites was written by a request with the same (query, filters, userId, limit).
C7_EntryBelongsToRequest ==
    [][\A q \in Requests : SearchDocuments(q) =>
         LET key == SearchCacheKey(q)
         IN  (key \in DOMAIN store /\ key \in DOMAIN lastSet) => lastSet[key].by = q
      ]_vars


(***************************************************************************)
(* Generation: overlapping generateContextualResponse calls, the provider, *)
(* and cancelGeneration                                                    *)
(***************************************************************************)
GenUsers == {<<"u", "1">>}
Sessions == {<<"s", "1">>}
GenerationIds == {<<"g", "1">>, <<"g", "2">>}

QueryHi == <<"h", "i">>
GenQueries ==
    { QueryHi,
      <<"S","t","o","p">>,
      <<"w","e","e","k","e","n","d">>,
      <<"q","u","i","t">>,
      <<"e","x","i","t">>,
      <<"t","e","r","m","i","n","a","t","e">>,
      <<"h","a","l","t">> }

\* What the provider may put in choices[0].message.content ("" is falsy)
ProviderContents == {<<"o", "k">>, <<"p","l","e","a","s","e"," ","s","t","o","p">>, <<>>}

\* The call has returned: its in-memory context document is dropped; the query,
\* the return value and what happened to the provider call are kept
Returned(slot, result) ==
    [IdleProc EXCEPT !.pc = "done", !.query = slot.query,
                     !.result = result, !.registered = slot.registered,
                     !.cancelled = slot.cancelled, !.failed = slot.failed]

\* generateContextualResponse up to the user message being pushed (lines 112-142):
\* the call's slot afterwards.  conversationId <<>> stands for the argument left out.
StartedCall(ctxs, query, userId, conversationId, generationId, t) ==
    LET sessionId == IF conversationId # <<>> THEN conversationId ELSE SessionFromClock(t)
        local     == getOrCreateConversationContext(ctxs, userId, sessionId)
        call      == [IdleProc EXCEPT !.query = query, !.userId = userId,
                                      !.generationId = generationId]
    IN  IF isStopSignal(query) THEN Returned(call, StopAcknowledgement)
        ELSE IF LastMessageSaysStop(local.messages)
             THEN Returned([call EXCEPT !.local = local], ConversationStopped)
        ELSE [call EXCEPT !.pc = "retrieving",
                          !.local = [local EXCEPT !.messages = Append(@, Message("user", query))]]

\* generateContextualResponse is called by the controller
GCRStart(p, query, userId, conversationId, generationId) ==
    /\ proc[p].pc = "idle"
    /\ sends[p].pc = "idle"
    /\ proc' = [proc EXCEPT ![p] =
                   StartedCall(contexts, query, userId, conversationId, generationId, now)]
    /\ UNCHANGED <<keyLog, store, now, lastSet, ret, docs, contexts, activeGenerations,
                   useFallback, chatVars>>

\* searchUserRelevantDocuments, the prompt, and callMistralAPI up to the request
\* being sent (rag.service lines 144-166, MistralApiService lines 33-73)
GCRRetrieve(p) ==
    /\ proc[p].pc = "retrieving"
    /\ LET slot   == proc[p]
           search == searchUserRelevantDocuments(store, docs, slot.query, slot.userId,
                         slot.local.healthConditions, generateEmbedding(slot.query), now)
           request == [query |-> slot.query, userId |-> slot.userId,
                       filters |-> NoFilters, limit |-> 3]
       IN  /\ store' = search[2]
           /\ lastSet' = LastSetAfterSearch(request, store, search[2])
           /\ IF useFallback
              THEN /\ proc' = [proc EXCEPT ![p] = Returned(slot, TechnicalIssues)]
                   /\ UNCHANGED activeGenerations
              ELSE /\ proc' = [proc EXCEPT ![p] =
                          [slot EXCEPT !.pc = "calling",
                                       !.registered = (slot.generationId # NoGenerationId)]]
                   /\ activeGenerations' = Register(activeGenerations, slot.generationId, p)
    /\ UNCHANGED <<keyLog, now, ret, docs, contexts, useFallback, chatVars>>


\* A variant of the tail that stores the apology of the catch block as well
AfterProviderStoringApology(ctxs, local, hasChoices, content) ==
    LET aiResponse == IF hasChoices /\ content # <<>> THEN content ELSE TechnicalIssues
        saved == saveConversationContext(ctxs,
                     [local EXCEPT !.messages = Append(@, Message("assistant", aiResponse))])
    IN  IF saved[1] THEN <<aiResponse, saved[2]>> ELSE <<TechnicalIssues, ctxs>>

\* The rest of generateContextualResponse once callMistralAPI returned response
\* (lines 168-189): <<return value, contexts afterwards>>.  content is
\* choices[0].message.content; a save that throws lands in the catch block.
AfterProvider(ctxs, local, hasChoices, content) ==
    IF hasChoices
    THEN LET aiResponse == IF content # <<>> THEN content ELSE CannotGenerate
             saved == saveConversationContext(ctxs,
                          [local EXCEPT !.messages = Append(@, Message("assistant", aiResponse))])
         IN  IF saved[1] THEN <<aiResponse, saved[2]>> ELSE <<TechnicalIssues, ctxs>>
    ELSE <<TechnicalIssues, ctxs>>

\* The provider answers the request of slot p: with choices, with an empty
\* choices list, or with an error (status, network, timeout).  A request whose
\* signal was aborted rejects at once, so it takes no answer any more.
ProviderRespond(p, outcome, content) ==
    /\ proc[p].pc = "calling"
    /\ ~proc[p].aborted
    /\ LET slot == proc[p]
           after == AfterProvider(contexts, slot.local, outcome = "choices", content)
       IN  /\ activeGenerations' =
                  IF outcome = "error"
                  THEN CleanupAfterError(activeGenerations, slot.generationId)
                  ELSE IF outcome = "choices"
                       THEN CleanupAfterResponse(activeGenerations, slot.generationId)
                  ELSE CleanupAfterError(
                           CleanupAfterResponse(activeGenerations, slot.generationId),
                           slot.generationId)
           /\ contexts' = after[2]
           /\ proc' = [proc EXCEPT ![p] =
                          Returned([slot EXCEPT !.failed = (outcome # "choices")], after[1])]
    /\ UNCHANGED <<keyLog, store, now, lastSet, ret, docs, useFallback, chatVars>>

\* The request of slot p rejects because its signal was aborted.  Whether the
\* rejection carries name 'AbortError' / code 'ABORT_ERR' is up to the HTTP
\* client: recognised, callMistralAPI throws 'Generation cancelled' into the
\* catch block of generateContextualResponse; otherwise it returns null.
AbortDelivered(p, recognised) ==
    /\ proc[p].pc = "calling"
    /\ proc[p].aborted
    /\ LET slot == proc[p]
           after == IF recognised THEN <<TechnicalIssues, contexts>>
                    ELSE AfterProvider(contexts, slot.local, FALSE, <<>>)
       IN  /\ activeGenerations' = CleanupAfterError(activeGenerations, slot.generationId)
           /\ proc' = [proc EXCEPT ![p] = Returned([slot EXCEPT !.cancelled = TRUE], after[1])]
    /\ UNCHANGED <<keyLog, store, now, lastSet, ret, docs, contexts, useFallback, chatVars>>

\* MistralApiService.cancelGeneration
CancelGeneration(generationId) ==
    /\ IF generationId \in DOMAIN activeGenerations
       THEN /\ proc' = [proc EXCEPT ![activeGenerations[generationId]].aborted = TRUE]
            /\ activeGenerations' = Remove(activeGenerations, generationId)
            /\ ret' = [op |-> "cancelGeneration", generationId |-> generationId, value |-> TRUE]
       ELSE /\ ret' = [op |-> "cancelGeneration", generationId |-> generationId, value |-> FALSE]
            /\ UNCHANGED <<proc, activeGenerations>>
    /\ UNCHANGED <<keyLog, store, now, lastSet, docs, contexts, useFallback, chatVars>>

NextGen ==
    \/ \E p \in Procs, q \in GenQueries, u \in GenUsers, c \in Sessions \cup {<<>>},
          g \in GenerationIds \cup {NoGenerationId} : GCRStart(p, q, u, c, g)
    \/ \E p \in Procs : GCRRetrieve(p)
    \/ \E p \in Procs, o \in {"choices", "empty", "error"}, c \in ProviderContents :
          ProviderRespond(p, o, c)
    \/ \E p \in Procs, r \in BOOLEAN : AbortDelivered(p, r)
    \/ \E g \in GenerationIds : CancelGeneration(g)

SpecGen == Init /\ [][NextGen]_vars


InFlight(p) == proc[p].pc = "calling"

\* The queries drawn that the stop rule covers: the lower-cased text contains
\* stop, end, quit, exit, terminate or halt
C2_StopQueries ==
    LET words == { <<"s","t","o","p">>, <<"e","n","d">>, <<"q","u","i","t">>,
                   <<"e","x","i","t">>, <<"t","e","r","m","i","n","a","t","e">>,
                   <<"h","a","l","t">> }
    IN  {q \in GenQueries : \E w \in words : includes(toLowerCase(q), w)}

\* C2: a query whose lower-cased text contains stop, end, quit, exit, terminate
\* or halt makes generateContextualResponse return the stop acknowledgement at
\* once, for every user, session and generation id: the call never reaches the
\* provider (it is never in flight and registers nothing), and the step that
\* takes the query makes no search and leaves the stored conversation contexts
\* as they were.
C2_StopSignalShortCircuits ==
    /\ [](\A p \in Procs :
            proc[p].query \in C2_StopQueries =>
                /\ proc[p].pc = "done"
                /\ proc[p].result = StopAcknowledgement
                /\ ~proc[p].registered)
    /\ [][\A p \in Procs :
            (proc[p].pc = "idle" /\ proc'[p].query \in C2_StopQueries) =>
                /\ contexts' = contexts
                /\ activeGenerations' = activeGenerations
                /\ store' = store]_vars

\* A stop signal was acknowledged while a session with a saved exchange exists
C2_Witness ==
    /\ \E p \in Procs :
        /\ proc[p].pc = "done" /\ proc[p].result = StopAcknowledgement
        /\ proc[p].query = <<"w","e","e","k","e","n","d">>
    /\ \E sid \in DOMAIN contexts : Len(contexts[sid].messages) = 2

\* C3: a generation cancelled before the provider responded returns something
\* other than the reply used for provider failures
C3_CancelledDiffersFromFailure ==
    \A p \in Procs :
        (proc[p].pc = "done" /\ proc[p].cancelled) => proc[p].result # TechnicalIssues

\* C4: the registry holds only ids of provider calls in flight, so it is empty
\* when none is; and the step that ends a call made with an id (an answer with
\* choices, an empty answer, a provider error, or the rejection that follows
\* cancelGeneration) leaves that id out of the registry.
C4_RegistryHoldsOnlyInFlight ==
    /\ [](\A g \in DOMAIN activeGenerations :
            \E p \in Procs : InFlight(p) /\ proc[p].generationId = g)
    /\ [][\A p \in Procs :
            (InFlight(p) /\ proc'[p].pc = "done" /\ proc[p].generationId # NoGenerationId) =>
                ~isGenerationActive(activeGenerations', proc[p].generationId)]_vars

\* Two registered calls are over, one cancelled and one failed at the provider,
\* and the registry is empty
C4_Witness ==
    /\ activeGenerations = <<>>
    /\ \E p, q \in Procs :
        /\ proc[p].pc = "done" /\ proc[p].registered /\ proc[p].cancelled
        /\ proc[q].pc = "done" /\ proc[q].registered /\ proc[q].failed

\* C5: while a provider call made with an id is in flight and not cancelled,
\* the registry holds that id and maps it to that call's controller
C5_InFlightReachableById ==
    \A p \in Procs :
        (InFlight(p) /\ proc[p].generationId # NoGenerationId /\ ~proc[p].aborted) =>
            /\ isGenerationActive(activeGenerations, proc[p].generationId)
            /\ activeGenerations[proc[p].generationId] = p


\* C11: in every persisted conversation context, messageCount is the length of
\* the message sequence
C11_MessageCountIsLength ==
    \A sid \in DOMAIN contexts :
        contexts[sid].messageCount = Len(contexts[sid].messages)


(***************************************************************************)
(* Chat: overlapping ChatService.sendMessage calls on stored chats         *)
(***************************************************************************)
ChatOne == <<"c", "1">>
ChatIds == {ChatOne, <<"c", "9">>}
ChatContents == {QueryHi, <<"S","t","o","p">>}

\* What the provider answers in these runs: a plain reply, or one with "stop" in it
ChatReplies == {<<"o", "k">>, <<"p","l","e","a","s","e"," ","s","t","o","p">>}

\* A store that already holds one chat of the user with one exchange, as a
\* completed sendMessage without chatId leaves it; the caches have expired and
\* an API key is configured
InitChat ==
    /\ keyLog = <<>>
    /\ store = <<>>
    /\ now = 0
    /\ lastSet = <<>>
    /\ ret = NoRet
    /\ docs = GeneralDocs
    /\ activeGenerations = <<>>
    /\ proc = [p \in Procs |-> IdleProc]
    /\ useFallback = FALSE
    /\ sends = [p \in Procs |-> IdleSend]
    /\ chatCache = <<>>
    /\ \E u \in GenUsers :
        LET exchange == <<Message("user", QueryHi), Message("assistant", <<"o", "k">>)>>
        IN  /\ chats = (ChatOne :> [userId |-> u, title |-> <<"Greeting">>,
                                    status |-> "active", messages |-> exchange,
                                    version |-> 0])
            /\ contexts = (ChatOne :> [userId |-> u, sessionId |-> ChatOne,
                                       messages |-> exchange, messageCount |-> 2])

\* The call has returned or thrown: the chat id and the outcome are kept
Finished(frame, result) ==
    [IdleSend EXCEPT !.pc = "done", !.chatId = frame.chatId, !.result = result]

\* if (chat.status === 'archived'), after which sendMessage throws
\* NotFoundException('Chat has been stopped and cannot accept new messages')
NeverStopped(chat) == FALSE

AlreadyStopped(chat) == chat.status = "archived"

\* sendMessage lines 34-122, and lines 124-186 when the content is a stop
\* signal.  chatId <<>> stands for a request without chatId.
SendStart(p, userId, content, chatId) ==
    /\ sends[p].pc = "idle"
    /\ proc[p].pc = "idle"
    /\ LET frame    == [IdleSend EXCEPT !.userId = userId, !.content = content,
                                        !.chatId = chatId, !.isNewChat = (chatId = <<>>)]
           stored   == findChat(chats, userId, chatId)
           loaded   == getOrCreateSavedContext(contexts, userId, chatId)
           chat     == IF chatId = <<>> THEN NewChat(userId)
                       ELSE [stored EXCEPT !.messages =
                                [i \in 1..Len(loaded[2].messages) |->
                                    Message(loaded[2].messages[i].role,
                                            loaded[2].messages[i].content)]]
           withUser == [chat EXCEPT !.messages = Append(@, Message("user", content))]
           local    == IF chatId = <<>> THEN NoLocalContext
                       ELSE pushMessage(loaded[2], "user", content)
           \* the stop path
           stopped  == [withUser EXCEPT !.status = "archived",
                                        !.messages = Append(@, Message("system", ChatStoppedByUser))]
           savedChat == saveChat(chats, stopped)
           created  == getOrCreateSavedContext(contexts, userId, savedChat[1].id)
           stopCtx  == IF chatId = <<>> THEN pushMessage(created[2], "user", content) ELSE local
           savedCtx == saveCounted(IF chatId = <<>> THEN created[3] ELSE loaded[3],
                                   pushMessage(stopCtx, "system", ChatStoppedByUser))
       IN  IF chatId # <<>> /\ ~stored.found
           THEN /\ sends' = [sends EXCEPT ![p] = Finished(frame, "NotFoundException")]
                /\ UNCHANGED <<chats, contexts, chatCache>>
           ELSE IF chatId # <<>> /\ AlreadyStopped(stored)
           THEN /\ sends' = [sends EXCEPT ![p] = Finished(frame, "NotFoundException")]
                /\ UNCHANGED <<chats, contexts, chatCache>>
           ELSE IF chatId # <<>> /\ ~loaded[1]
           THEN /\ sends' = [sends EXCEPT ![p] = Finished(frame, "Error")]
                /\ UNCHANGED <<chats, contexts, chatCache>>
           ELSE IF isStopSignal(content)
           THEN /\ chats' = savedChat[2]
                /\ IF ~savedChat[3] \/ (chatId = <<>> /\ ~created[1]) \/ ~savedCtx[1]
                   THEN /\ contexts' = IF chatId = <<>> THEN contexts ELSE loaded[3]
                        /\ sends' = [sends EXCEPT ![p] =
                               Finished([frame EXCEPT !.chatId = savedChat[1].id], "Error")]
                        /\ UNCHANGED chatCache
                   ELSE /\ contexts' = savedCtx[2]
                        /\ chatCache' = cacheAfterSend(chatCache, savedChat[1])
                        /\ sends' = [sends EXCEPT ![p] =
                               Finished([frame EXCEPT !.chatId = savedChat[1].id], "stopped")]
           ELSE /\ sends' = [sends EXCEPT ![p] =
                       [frame EXCEPT !.pc = "loaded", !.chatId = chatId,
                                     !.chat = withUser, !.local = local]]
                /\ contexts' = IF chatId = <<>> THEN contexts ELSE loaded[3]
                /\ UNCHANGED <<chats, chatCache>>
    /\ UNCHANGED <<keyLog, store, now, lastSet, ret, docs, activeGenerations, proc, useFallback>>


\* `gen_${tempId}_${Date.now()}`: tempId is the chat id, or for a new chat a
\* temporary id with a random part, which the slot stands for
GenerationIdOf(p, frame, t) ==
    <<"gen", IF frame.isNewChat THEN <<"temp", p>> ELSE frame.chatId, t>>

\* `chat_${Date.now()}`
ChatSessionFromClock(t) == <<"chat_", t>>

\* sendMessage lines 188-204 and AiService.generateChatResponse up to the call
\* of generateContextualResponse, which then runs in the slot's proc record
SendGenerate(p) ==
    /\ sends[p].pc = "loaded"
    /\ proc[p].pc = "idle"
    /\ LET frame   == sends[p]
           history == SubSeq(frame.chat.messages, 1, Len(frame.chat.messages) - 1)
       IN  IF isStopSignal(frame.content)
           THEN /\ sends' = [sends EXCEPT ![p] =
                                [frame EXCEPT !.pc = "replied", !.ai = StopAcknowledgement]]
                /\ UNCHANGED proc
           ELSE IF LastMessageSaysStop(history)
           THEN /\ sends' = [sends EXCEPT ![p] =
                                [frame EXCEPT !.pc = "replied", !.ai = ConversationStopped]]
                /\ UNCHANGED proc
           ELSE /\ sends' = [sends EXCEPT ![p].pc = "generating"]
                /\ proc' = [proc EXCEPT ![p] =
                               StartedCall(contexts, frame.content, frame.userId,
                                           ChatSessionFromClock(now),
                                           GenerationIdOf(p, frame, now), now)]
    /\ UNCHANGED <<keyLog, store, now, lastSet, ret, docs, contexts, activeGenerations,
                   useFallback, chats, chatCache>>

\* What generateChatTitle may return for a new chat: the provider's title, or
\* the fallback title when the provider is not used or fails
Titles == {<<"provider title">>, <<"fallback title">>}

\* sendMessage lines 206-236, once generateChatResponse has returned: the
\* assistant message is pushed, a new chat gets its title, and the chat is saved
SendSaveChat(p, title) ==
    /\ \/ sends[p].pc = "replied"
       \/ sends[p].pc = "generating" /\ proc[p].pc = "done"
    /\ useFallback => title = <<"fallback title">>
    /\ LET frame     == sends[p]
           content   == IF frame.pc = "replied" THEN frame.ai ELSE proc[p].result
           answered  == [frame.chat EXCEPT !.messages = Append(@, Message("assistant", content))]
           titled    == IF frame.isNewChat /\ Len(answered.messages) = 2
                        THEN [answered EXCEPT !.title = title] ELSE answered
           savedChat == saveChat(chats, titled)
       IN  /\ frame.isNewChat \/ title = <<"fallback title">>
           /\ chats' = savedChat[2]
           /\ sends' = [sends EXCEPT ![p] =
                  IF savedChat[3]
                  THEN [frame EXCEPT !.pc = "saved", !.chatId = savedChat[1].id,
                                     !.ai = content, !.chat = savedChat[1]]
                  ELSE Finished(frame, "Error")]
    /\ UNCHANGED <<keyLog, store, now, lastSet, ret, docs, contexts, activeGenerations, proc,
                   useFallback, chatCache>>

\* sendMessage lines 238-283: the assistant message goes into the conversation
\* context (created now for a new chat), then the caches are written
SendSaveContext(p) ==
    /\ sends[p].pc = "saved"
    /\ LET frame    == sends[p]
           created  == getOrCreateSavedContext(contexts, frame.userId, frame.chatId)
           local    == IF frame.isNewChat THEN pushMessage(created[2], "user", frame.content)
                       ELSE frame.local
           savedCtx == saveCounted(IF frame.isNewChat THEN created[3] ELSE contexts,
                                   pushMessage(local, "assistant", frame.ai))
       IN  IF (frame.isNewChat /\ ~created[1]) \/ ~savedCtx[1]
           THEN /\ UNCHANGED <<contexts, chatCache>>
                /\ sends' = [sends EXCEPT ![p] = Finished(frame, "Error")]
           ELSE /\ contexts' = savedCtx[2]
                /\ chatCache' = cacheAfterSend(chatCache, frame.chat)
                /\ sends' = [sends EXCEPT ![p] = Finished(frame, "sent")]
    /\ UNCHANGED <<keyLog, store, now, lastSet, ret, docs, activeGenerations, proc, useFallback,
                   chats>>

\* Date.now() moves on
ChatTick ==
    /\ now < MaxChatTicks
    /\ now' = now + 1
    /\ UNCHANGED <<keyLog, store, lastSet, ret, docs, contexts, activeGenerations, proc,
                   useFallback, chatVars>>

NextChat ==
    \/ \E p \in Procs, u \in GenUsers, c \in ChatContents, id \in ChatIds \cup {<<>>} :
          SendStart(p, u, c, id)
    \/ \E p \in Procs : SendGenerate(p)
    \/ \E p \in Procs, u \in GenUsers : GCRStart(p, QueryHi, u, ChatOne, NoGenerationId)
    \/ \E p \in Procs : GCRRetrieve(p)
    \/ \E p \in Procs, o \in {"choices", "error"}, c \in ChatReplies :
          ProviderRespond(p, o, c)
    \/ \E p \in Procs, t \in Titles : SendSaveChat(p, t)
    \/ \E p \in Procs : SendSaveContext(p)

SpecChat == InitChat /\ [][NextChat]_vars


(***************************************************************************)
(* Chat: stopChat while sendMessage calls on the chat run                  *)
(***************************************************************************)
\* activeGenerations.filter((id) => id.startsWith(`gen_${chatId}_`))
GenerationsOfChat(registry, chatId) ==
    {g \in getActiveGenerationIds(registry) : Len(g) = 3 /\ g[1] = "gen" /\ g[2] = chatId}

\* `Chat stopped${reason ? ...}${generationStopped ? ' (Active generation cancelled)' : ''}`
\* for a request without reason
StopMessage(generationStopped) ==
    <<"Chat stopped">> \o (IF generationStopped THEN <<" (Active generation cancelled)">>
                           ELSE <<>>)

\* chat.status = 'archived'; chat.messages.push(stopMessage); chat.save(): the
\* update sets the status, pushes the one message and increments the version,
\* without a condition on the version the document was loaded with
saveStopped(chs, chatId, stopMessage) ==
    [chs EXCEPT ![chatId].status = "archived",
                ![chatId].messages = Append(@, stopMessage),
                ![chatId].version = @ + 1]

\* ChatCacheService.invalidateChatCache, then invalidateUserChatListCache
invalidateAfterChange(cache, userId, chatId) ==
    Remove(Remove(Remove(cache, MessagesKey(chatId)), MetadataKey(chatId)), ChatListKey(userId))

\* ChatService.stopChat(userId, chatId)
StopChat(userId, chatId) ==
    /\ ret = NoRet
    /\ LET chat      == findChat(chats, userId, chatId)
           cancelled == GenerationsOfChat(activeGenerations, chatId)
       IN  IF ~chat.found
           THEN /\ ret' = [op |-> "stopChat", chatId |-> chatId, value |-> "NotFoundException"]
                /\ UNCHANGED <<proc, activeGenerations, chats, chatCache>>
           ELSE /\ proc' = [p \in Procs |->
                               IF \E g \in cancelled : activeGenerations[g] = p
                               THEN [proc[p] EXCEPT !.aborted = TRUE] ELSE proc[p]]
                /\ activeGenerations' = [g \in DOMAIN activeGenerations \ cancelled |->
                                            activeGenerations[g]]
                /\ chats' = saveStopped(chats, chatId,
                                        Message("system", StopMessage(cancelled # {})))
                /\ chatCache' = invalidateAfterChange(chatCache, userId, chatId)
                /\ ret' = [op |-> "stopChat", chatId |-> chatId,
                           value |-> "Chat stopped successfully"]
    /\ UNCHANGED <<keyLog, store, now, lastSet, docs, contexts, useFallback, sends>>

NextStop ==
    \/ \E p \in Procs, u \in GenUsers, c \in ChatContents, id \in ChatIds :
          SendStart(p, u, c, id)
    \/ \E p \in Procs : SendGenerate(p)
    \/ \E p \in Procs : GCRRetrieve(p)
    \/ \E p \in Procs, o \in {"choices", "error"}, c \in ChatReplies :
          ProviderRespond(p, o, c)
    \/ \E p \in Procs, r \in BOOLEAN : AbortDelivered(p, r)
    \/ \E p \in Procs : SendSaveChat(p, <<"fallback title">>)
    \/ \E p \in Procs : SendSaveContext(p)
    \/ \E u \in GenUsers, id \in ChatIds : StopChat(u, id)
    \/ ChatTick

SpecStop == InitChat /\ [][NextStop]_vars


(***************************************************************************)
(* Chat: the cached chat list of a user while chats are changed            *)
(***************************************************************************)
\* chatModel.find({ userId }).select('-messages'), mapped to list items: the
\* items by chat id, each with its title and status
chatListOf(chs, userId) ==
    [id \in {c \in DOMAIN chs : chs[c].userId = userId} |->
        [title |-> chs[id].title, status |-> chs[id].status]]

\* ChatService.getUserChats up to the end of the query: a cached list is
\* returned at once, otherwise the chats are read from the store
GetUserChatsStart(p, userId) ==
    /\ sends[p].pc = "idle"
    /\ proc[p].pc = "idle"
    /\ LET cacheKey == ChatListKey(userId)
       IN  sends' = [sends EXCEPT ![p] =
               IF cacheKey \in DOMAIN chatCache
               THEN [IdleSend EXCEPT !.pc = "done", !.userId = userId,
                                     !.chat = chatCache[cacheKey], !.result = "chat list"]
               ELSE [IdleSend EXCEPT !.pc = "listed", !.userId = userId,
                                     !.chat = chatListOf(chats, userId)]]
    /\ UNCHANGED <<keyLog, store, now, lastSet, ret, docs, contexts, activeGenerations, proc,
                   useFallback, chats, chatCache>>

\* getUserChats from cacheUserChatList on: the list that was read is cached
\* and returned
GetUserChatsCache(p) ==
    /\ sends[p].pc = "listed"
    /\ chatCache' = (ChatListKey(sends[p].userId) :> sends[p].chat) @@ chatCache
    /\ sends' = [sends EXCEPT ![p].pc = "done", ![p].result = "chat list"]
    /\ UNCHANGED <<keyLog, store, now, lastSet, ret, docs, contexts, activeGenerations, proc,
                   useFallback, chats>>

\* The UpdateChatDto of the requests made here: a new title
UpdateChatDtos == {[title |-> <<"Renamed">>]}

\* ChatService.updateChat(userId, chatId, updateChatDto)
UpdateChat(userId, chatId, updateChatDto) ==
    /\ ret = NoRet
    /\ IF findChat(chats, userId, chatId).found
       THEN /\ chats' = [chats EXCEPT ![chatId].title = updateChatDto.title]
            /\ chatCache' = invalidateAfterChange(chatCache, userId, chatId)
            /\ ret' = [op |-> "updateChat", chatId |-> chatId, value |-> updateChatDto.title]
       ELSE /\ ret' = [op |-> "updateChat", chatId |-> chatId, value |-> "NotFoundException"]
            /\ UNCHANGED <<chats, chatCache>>
    /\ UNCHANGED <<keyLog, store, now, lastSet, docs, contexts, activeGenerations, proc,
                   useFallback, sends>>

\* ChatService.deleteChat(userId, chatId)
DeleteChat(userId, chatId) ==
    /\ ret = NoRet
    /\ IF findChat(chats, userId, chatId).found
       THEN /\ chats' = Remove(chats, chatId)
            /\ chatCache' = invalidateAfterChange(chatCache, userId, chatId)
            /\ ret' = [op |-> "deleteChat", chatId |-> chatId,
                       value |-> "Chat deleted successfully"]
       ELSE /\ ret' = [op |-> "deleteChat", chatId |-> chatId, value |-> "NotFoundException"]
            /\ UNCHANGED <<chats, chatCache>>
    /\ UNCHANGED <<keyLog, store, now, lastSet, docs, contexts, activeGenerations, proc,
                   useFallback, sends>>

NextList ==
    \/ \E p \in Procs, u \in GenUsers : GetUserChatsStart(p, u)
    \/ \E p \in Procs : GetUserChatsCache(p)
    \/ \E u \in GenUsers, id \in ChatIds, dto \in UpdateChatDtos : UpdateChat(u, id, dto)
    \/ \E u \in GenUsers, id \in ChatIds : DeleteChat(u, id)
    \/ \E u \in GenUsers, id \in ChatIds : StopChat(u, id)
    \/ \E p \in Procs, u \in GenUsers, c \in ChatContents, id \in ChatIds :
          SendStart(p, u, c, id)
    \/ \E p \in Procs : SendGenerate(p)
    \/ \E p \in Procs : GCRRetrieve(p)
    \/ \E p \in Procs, o \in {"choices", "error"}, c \in ChatReplies :
          ProviderRespond(p, o, c)
    \/ \E p \in Procs, r \in BOOLEAN : AbortDelivered(p, r)
    \/ \E p \in Procs : SendSaveChat(p, <<"fallback title">>)
    \/ \E p \in Procs : SendSaveContext(p)

SpecList == InitChat /\ [][NextList]_vars


IsPrefix(earlier, later) ==
    /\ Len(earlier) <= Len(later)
    /\ SubSeq(later, 1, Len(earlier)) = earlier

\* C12: every step keeps each persisted conversation context and only appends
\* to its messages: the sequence before the step is a prefix of the sequence
\* after it, also when sendMessage and generateContextualResponse calls on one
\* session overlap.
C12_HistoryOnlyGrowsByAppending ==
    [][\A sid \in DOMAIN contexts :
          /\ sid \in DOMAIN contexts'
          /\ contexts'[sid].userId = contexts[sid].userId
          /\ IsPrefix(contexts[sid].messages, contexts'[sid].messages)]_vars

\* Two overlapping sendMessage calls on the chat have both saved: the context
\* holds the stored exchange followed by what each of them pushed, while the
\* chat document, written as a whole, holds only what the later one knew
C12_Witness ==
    /\ Len(contexts[ChatOne].messages) = 6
    /\ Len(chats[ChatOne].messages) = 4
    /\ \A p \in Procs : sends[p].pc = "done" /\ sends[p].result = "sent"
    /\ \A p \in Procs : sends[p].chatId = ChatOne


\* C13: when the provider answers the call of a slot with a valid first choice,
\* the call returns the reply and the stored context of its session ends with
\* the assistant message carrying it; when the provider answers without
\* choices or with an error, the call returns the fallback message and the
\* stored contexts are left as they were.
C13_CompletionPersistsFailureDoesNot ==
    [][\A p \in Procs :
          (InFlight(p) /\ ~proc[p].aborted /\ proc'[p].pc = "done") =>
              IF proc'[p].failed
              THEN /\ proc'[p].result = TechnicalIssues
                   /\ contexts' = contexts
              ELSE LET sid == proc[p].local.sessionId
                   IN  /\ proc'[p].result # TechnicalIssues
                       /\ sid \in DOMAIN contexts'
                       /\ contexts'[sid].messages # <<>>
                       /\ contexts'[sid].messages[Len(contexts'[sid].messages)] =
                              Message("assistant", proc'[p].result)]_vars


\* The stored context of user u for the session a call with conversationId c
\* addresses ends with a message that contains "stop" in any letter case
C14_SessionStopped(u, c) ==
    LET sid == IF c # <<>> THEN c ELSE SessionFromClock(now)
    IN  /\ sid \in DOMAIN contexts
        /\ contexts[sid].userId = u
        /\ contexts[sid].messages # <<>>
        /\ includes(toLowerCase(contexts[sid].messages[Len(contexts[sid].messages)].content),
                    <<"s","t","o","p">>)

\* What C14 asks of the step that takes a call with query q: the call is over
\* with the conversation-ended message, and nothing was searched, registered
\* or stored
C14_EndedAt(p, q, u, c, g) ==
    (C14_SessionStopped(u, c) /\ GCRStart(p, q, u, c, g)) =>
        /\ proc'[p].pc = "done"
        /\ proc'[p].result = ConversationStopped
        /\ ~proc'[p].registered
        /\ contexts' = contexts
        /\ store' = store
        /\ activeGenerations' = activeGenerations

\* C14 as stated: on a session whose last stored message contains "stop", every
\* call returns the conversation-ended message and changes nothing
C14_StoppedSessionShortCircuits ==
    [][\A p \in Procs :
          (proc[p].pc = "idle" /\ proc'[p].pc # "idle") =>
              \A q \in GenQueries, u \in GenUsers, c \in Sessions \cup {<<>>},
                 g \in GenerationIds \cup {NoGenerationId} : C14_EndedAt(p, q, u, c, g)]_vars

\* C14, amended: the same for every call whose query is not itself a stop
\* signal (a stop signal is acknowledged before the context is read)
C14_StoppedSessionShortCircuitsUnlessStopQuery ==
    [][\A p \in Procs :
          (proc[p].pc = "idle" /\ proc'[p].pc # "idle") =>
              \A q \in GenQueries \ C2_StopQueries, u \in GenUsers, c \in Sessions \cup {<<>>},
                 g \in GenerationIds \cup {NoGenerationId} : C14_EndedAt(p, q, u, c, g)]_vars

\* A call on a stopped session has returned the conversation-ended message
C14_Witness ==
    \E p \in Procs :
        /\ proc[p].pc = "done" /\ proc[p].result = ConversationStopped
        /\ proc[p].query = QueryHi
        /\ \E sid \in DOMAIN contexts :
              includes(toLowerCase(contexts[sid].messages[Len(contexts[sid].messages)].content),
                       <<"s","t","o","p">>)


\* The terminal state of a returned call, read off its return value
C15_Terminal(slot) ==
    IF slot.result \in {StopAcknowledgement, ConversationStopped} THEN "STOPPED"
    ELSE IF slot.result = TechnicalIssues THEN "FAILED_FALLBACK"
    ELSE "COMPLETED"

\* The steps a call may take.  Taking the query covers RECEIVED, STOP_CHECK and,
\* unless the query is a stop signal, CONTEXT_LOADED; the next step covers
\* RETRIEVAL, PROMPT_ASSEMBLY and the start of PROVIDER_CALL.
C15_Step(p) ==
    LET before == proc[p]
        after  == proc'[p]
        saved  == /\ after.result \notin {StopAcknowledgement, ConversationStopped,
                                          TechnicalIssues}
                  /\ before.local.sessionId \in DOMAIN contexts'
                  /\ LET stored == contexts'[before.local.sessionId].messages
                     IN  /\ stored # <<>>
                         /\ stored[Len(stored)] = Message("assistant", after.result)
    IN  \/ after = before
        \/ before.pc = "idle" /\ after.pc = "retrieving"
        \/ before.pc = "idle" /\ after.pc = "done" /\ C15_Terminal(after) = "STOPPED"
        \/ before.pc = "retrieving" /\ after.pc = "calling"
        \/ before.pc = "retrieving" /\ after.pc = "done"
              /\ C15_Terminal(after) = "FAILED_FALLBACK"
        \/ before.pc = "calling" /\ after.pc = "calling"
        \/ before.pc = "calling" /\ after.pc = "done"
              /\ C15_Terminal(after) = "FAILED_FALLBACK"
        \/ before.pc = "calling" /\ after.pc = "done"
              /\ C15_Terminal(after) = "COMPLETED" /\ saved

\* C15: a call goes through the phases in order only; where it ends, it ends
\* in STOPPED (before retrieval, with a canned text), in FAILED_FALLBACK (with
\* the canned apology) or in COMPLETED; and the stored contexts change only in
\* the step that ends a call in COMPLETED, which stores the reply it returns.
C15_QueryLifecycle ==
    /\ [][\A p \in Procs : C15_Step(p)]_vars
    /\ [][contexts' # contexts =>
            \E p \in Procs : /\ proc[p].pc = "calling" /\ proc'[p].pc = "done"
                             /\ C15_Terminal(proc'[p]) = "COMPLETED"]_vars

\* Calls have ended in each of the three terminal states
C15_Witness ==
    \E p, q \in Procs :
        /\ proc[p].pc = "done" /\ C15_Terminal(proc[p]) = "COMPLETED"
        /\ proc[q].pc = "done" /\ C15_Terminal(proc[q]) = "STOPPED"


(***************************************************************************)
(* VectorSearchService on its own: the merge of two result lists, the      *)
(* similarity search over a collection, and both searches under failure    *)
(***************************************************************************)
\* Result lists as searchSimilarDocuments and textSearch hand them to
\* combineAndRerank: at most limit results each, one per document found; a
\* text result carries the relevance 0.5
MergeIds == {<<"d", DigitOf[i]>> : i \in 1..MaxLimit}
MergeScores == {900, 600}
VectorRelevances == {800, 200}
TextRelevance == 500

MergeResult(id, score, relevance) ==
    [document |-> [id |-> id], score |-> score, relevance |-> relevance]

ListsOf(results) ==
    {rs \in UNION {[1..n -> results] : n \in 0..MaxLimit} :
        \A i, j \in 1..Len(rs) : i # j => rs[i].document.id # rs[j].document.id}

VectorLists ==
    ListsOf({MergeResult(id, s, r) : id \in MergeIds, s \in MergeScores, r \in VectorRelevances})

TextLists ==
    ListsOf({MergeResult(id, s, TextRelevance) : id \in MergeIds, s \in MergeScores})

\* combineAndRerank called by hybridSearch on the two lists (one call a run)
CombineAndRerankCall(vectorResults, textResults) ==
    /\ ret = NoRet
    /\ ret' = [op |-> "combineAndRerank", vectorResults |-> vectorResults,
               textResults |-> textResults,
               results |-> combineAndRerank(vectorResults, textResults)]
    /\ UNCHANGED <<keyLog, store, now, lastSet, docs, contexts, activeGenerations, proc,
                   useFallback, chatVars>>

\* calculateSimilarity throws when the two vectors differ in length
SimilarityRaises(embedding1, embedding2) == Len(embedding1) # Len(embedding2)

\* The try block of searchSimilarDocuments raises when the find is rejected or
\* the scorer throws on one of the fetched documents
SearchRaises(coll, queryEmbedding, filters, limit, storeFails) ==
    \/ storeFails
    \/ LET documents == Take(SelectSeq(coll, LAMBDA d : MatchesFilters(d, filters)), limit * 2)
       IN  \E i \in 1..Len(documents) : SimilarityRaises(queryEmbedding, documents[i].embedding)

\* searchSimilarDocuments with its catch: an exception is answered with []
searchSimilarDocumentsCaught(coll, query, queryEmbedding, filters, limit, threshold, storeFails) ==
    IF SearchRaises(coll, queryEmbedding, filters, limit, storeFails)
    THEN <<>>
    ELSE searchSimilarDocuments(coll, query, queryEmbedding, filters, limit, threshold)

\* hybridSearch with its catch: the vector search answers its own exceptions, so
\* only the find of textSearch can raise here
hybridSearchCaught(coll, query, queryEmbedding, filters, limit, vectorStoreFails, textStoreFails) ==
    LET vectorResults == searchSimilarDocumentsCaught(coll, query, queryEmbedding, filters,
                                                      limit, 500, vectorStoreFails)
    IN  IF textStoreFails
        THEN <<>>
        ELSE Take(combineAndRerank(vectorResults, textSearch(coll, query, filters, limit)),
                  limit)

\* Embeddings of four dimensions and their cosine similarity to QueryEmbedding:
\* 1.0, 0.8, 0.5, 0.4, 0.0, and the zero vector, whose similarity is 0 / 0; the
\* last one is of another dimension
QueryEmbedding == <<1, 0, 0, 0>>
DocEmbeddings ==
    << <<1, 0, 0, 0>>, <<4, 2, 2, 1>>, <<1, 1, 1, 1>>, <<2, 4, 2, 1>>, <<0, 1, 0, 0>>,
       <<0, 0, 0, 0>>, <<3, 4>> >>

\* The second document is stored without keywords
VectorDoc(i) ==
    [id |-> <<"v", DigitOf[i]>>, title |-> QueryTea,
     content |-> <<"t","e","a"," ","c","a","l","m","s">>,
     keywords |-> IF i = 2 THEN <<>> ELSE << QueryTea >>, category |-> "lifestyle",
     embedding |-> DocEmbeddings[i], userId |-> <<>>]

\* The collections the search may find: up to MaxFetched different documents
Orders ==
    {o \in UNION {[1..n -> 1..Len(DocEmbeddings)] : n \in 1..MaxFetched} :
        \A i, j \in 1..Len(o) : i # j => o[i] # o[j]}

Collections == {[i \in 1..Len(order) |-> VectorDoc(order[i])] : order \in Orders}

Thresholds == {300, 500, 700}
Limits == 1..MaxLimit

\* searchSimilarDocuments(query, undefined, limit, threshold) over a collection;
\* raised records whether its try block raised
SearchSimilarDocumentsCall(coll, limit, threshold, storeFails) ==
    /\ ret' = [op |-> "searchSimilarDocuments", coll |-> coll, limit |-> limit,
               threshold |-> threshold,
               raised |-> SearchRaises(coll, QueryEmbedding, NoFilters, limit, storeFails),
               results |-> searchSimilarDocumentsCaught(coll, QueryTea, QueryEmbedding,
                                                        NoFilters, limit, threshold,
                                                        storeFails)]
    /\ UNCHANGED <<keyLog, store, now, lastSet, docs, contexts, activeGenerations, proc,
                   useFallback, chatVars>>

\* hybridSearch(query, undefined, limit) over a collection; raised records
\* whether the store or the scorer raised during the call
HybridSearchCall(coll, limit, vectorStoreFails, textStoreFails) ==
    /\ ret' = [op |-> "hybridSearch", coll |-> coll, limit |-> limit,
               raised |-> \/ textStoreFails
                          \/ SearchRaises(coll, QueryEmbedding, NoFilters, limit,
                                          vectorStoreFails),
               results |-> hybridSearchCaught(coll, QueryTea, QueryEmbedding, NoFilters,
                                              limit, vectorStoreFails, textStoreFails)]
    /\ UNCHANGED <<keyLog, store, now, lastSet, docs, contexts, activeGenerations, proc,
                   useFallback, chatVars>>

NextVector ==
    \/ ret = NoRet /\ \E v \in VectorLists, t \in TextLists : CombineAndRerankCall(v, t)
    \/ ret = NoRet /\ \E c \in Collections, l \in Limits, th \in Thresholds, f \in BOOLEAN :
                          SearchSimilarDocumentsCall(c, l, th, f)
    \/ ret = NoRet /\ \E c \in Collections, l \in Limits, vf \in BOOLEAN, tf \in BOOLEAN :
                          HybridSearchCall(c, l, vf, tf)

SpecVector == Init /\ [][NextVector]_vars

\* The positions of a document id in a result list
PositionsOf(rs, id) == {i \in 1..Len(rs) : rs[i].document.id = id}

C17_Fetched == Take(ret.coll, ret.limit * 2)

\* The fetched documents whose similarity to the query is at least the threshold
C17_Passing ==
    {i \in 1..Len(C17_Fetched) :
        LET similarity == calculateSimilarity(QueryEmbedding, C17_Fetched[i].embedding)
        IN  ~IsNaN(similarity) /\ similarity >= ret.threshold}

\* C17: when the search does not raise, every result is a fetched document
\* whose similarity to the query is at least the threshold, with that
\* similarity as its score; the results are as many as the passing documents
\* unless the limit cuts them; and a document of similarity 0.4 is never
\* returned at threshold 0.7.
C17_SimilarityThreshold ==
    (ret.op = "searchSimilarDocuments" /\ ~ret.raised) =>
        /\ \A k \in 1..Len(ret.results) :
            /\ ret.results[k].score >= ret.threshold
            /\ \E i \in C17_Passing :
                /\ ret.results[k].document.id = C17_Fetched[i].id
                /\ ret.results[k].score =
                       calculateSimilarity(QueryEmbedding, C17_Fetched[i].embedding)
            /\ ret.threshold = 700 => ret.results[k].score # 400
        /\ \A k, l \in 1..Len(ret.results) :
            k # l => ret.results[k].document.id # ret.results[l].document.id
        /\ Len(ret.results) = (IF Cardinality(C17_Passing) < ret.limit
                               THEN Cardinality(C17_Passing) ELSE ret.limit)

\* At threshold 0.3 a document of similarity 0.4 is returned while a fetched
\* document below the threshold is not
C17_Witness ==
    /\ ret.op = "searchSimilarDocuments"
    /\ ~ret.raised
    /\ ret.threshold = 300
    /\ \E k \in 1..Len(ret.results) : ret.results[k].score = 400
    /\ C17_Passing # 1..Len(C17_Fetched)
    /\ Len(ret.results) = Cardinality(C17_Passing)


\* C18 (as claimed): when the similarity scorer or the document store raises
\* during searchSimilarDocuments or hybridSearch, the call returns the empty list.
C18_FailuresGiveEmptyResults ==
    (ret.op \in {"searchSimilarDocuments", "hybridSearch"} /\ ret.raised) =>
        ret.results = <<>>


(***************************************************************************)
(* The two-pool search of generateContextualResponse on its own: users add *)
(* documents and searchUserRelevantDocuments blends them with the general   *)
(* results                                                                 *)
(***************************************************************************)
BlendQueries == {QueryTea, QueryNap}

\* searchUserRelevantDocuments(query, userId, conversationContext) for a context
\* without health conditions
SearchUserRelevantDocumentsCall(query, userId) ==
    LET r == searchUserRelevantDocuments(store, docs, query, userId, <<>>,
                                         generateEmbedding(query), now)
        request == [query |-> query, userId |-> userId, filters |-> NoFilters, limit |-> 3]
    IN  /\ store' = r[2]
        /\ lastSet' = LastSetAfterSearch(request, store, r[2])
        /\ ret' = [op |-> "searchUserRelevantDocuments", query |-> query, userId |-> userId,
                   results |-> r[1],
                   cacheHit |-> get(store, SearchCacheKey(request), now)[1] # NoValue]
        /\ UNCHANGED <<keyLog, now, docs, contexts, activeGenerations, proc, useFallback,
                       chatVars>>

NextBlend ==
    \/ \E u \in Users, d \in UserDocInputs : AddUserWellnessDocument(u, d)
    \/ \E q \in BlendQueries, u \in Users : SearchUserRelevantDocumentsCall(q, u)

SpecBlend == Init /\ [][NextBlend]_vars

\* C19 (as claimed): a stored document of the querying user is among the
\* results with relevance 0.8 exactly when its cosine similarity to the query
\* is at least 0.5 (the collections here never hold more than five candidates).
C19_UserPoolRetention ==
    ret.op = "searchUserRelevantDocuments" =>
        \A i \in 1..Len(docs) :
            docs[i].userId = ret.userId =>
                LET similarity == calculateSimilarity(generateEmbedding(ret.query),
                                                      docs[i].embedding)
                IN  (~IsNaN(similarity) /\ similarity >= 500) <=>
                        \E k \in 1..Len(ret.results) :
                            /\ ret.results[k].document.id = docs[i].id
                            /\ ret.results[k].relevance = 800


\* C20 (as claimed): the envelope searchDocuments returns has confidence 0.8
\* when it holds at least one result, and confidence 0.0 with the model label
\* "fallback" when it holds none.
C20_ConfidenceRule ==
    ret.op = "searchDocuments" =>
        LET response == ret.response
        IN  /\ response.results # <<>> => response.confidence = 800
            /\ response.results = <<>> =>
                  /\ response.totalResults = 0
                  /\ response.confidence = 0
                  /\ response.model = "fallback"


(***************************************************************************)
(* EmbeddingService on its own: chunkDocument, calculateSimilarity and     *)
(* generateEmbedding applied to drawn inputs                               *)
(***************************************************************************)
\* String.prototype.trim on texts whose only white space is the blank
RECURSIVE trimStart(_)
trimStart(s) == IF s # <<>> /\ Head(s) = " " THEN trimStart(Tail(s)) ELSE s

RECURSIVE trimEnd(_)
trimEnd(s) ==
    IF s # <<>> /\ s[Len(s)] = " " THEN trimEnd(SubSeq(s, 1, Len(s) - 1)) ELSE s

trim(s) == trimEnd(trimStart(s))

\* content.split(/[.!?]+/): a run of terminators separates two pieces (a piece
\* between two terminators of one run is empty and is filtered out below)
RECURSIVE SentencesFrom(_, _)
SentencesFrom(s, piece) ==
    IF s = <<>> THEN <<piece>>
    ELSE IF Head(s) \in {".", "!", "?"} THEN <<piece>> \o SentencesFrom(Tail(s), <<>>)
    ELSE SentencesFrom(Tail(s), Append(piece, Head(s)))

\* .filter((s) => s.trim().length > 0)
Sentences(content) == SelectSeq(SentencesFrom(content, <<>>), LAMBDA s : trim(s) # <<>>)

\* The loop of chunkDocument over the sentences left, and the push after it
RECURSIVE ChunkLoop(_, _, _, _)
ChunkLoop(sentences, currentChunk, chunks, maxChunkSize) ==
    IF sentences = <<>>
    THEN IF Len(currentChunk) > 0 THEN Append(chunks, trim(currentChunk)) ELSE chunks
    ELSE LET trimmedSentence == trim(Head(sentences))
         IN  IF Len(currentChunk) + Len(trimmedSentence) > maxChunkSize
             THEN ChunkLoop(Tail(sentences), trimmedSentence,
                            IF Len(currentChunk) > 0 THEN Append(chunks, trim(currentChunk))
                                                     ELSE chunks,
                            maxChunkSize)
             ELSE ChunkLoop(Tail(sentences),
                            currentChunk
                                \o (IF Len(currentChunk) > 0 THEN <<".", " ">> ELSE <<>>)
                                \o trimmedSentence,
                            chunks, maxChunkSize)

\* EmbeddingService.chunkDocument (overlapSize is not read by the code)
chunkDocument(content, maxChunkSize, overlapSize) ==
    ChunkLoop(Sentences(content), <<>>, <<>>, maxChunkSize)

ChunkAlphabet == {"a", ".", " "}

RECURSIVE ChunkTextsUpTo(_)
ChunkTextsUpTo(n) ==
    IF n = 0 THEN {<<>>}
    ELSE LET shorter == ChunkTextsUpTo(n - 1)
         IN  shorter \cup {t \o <<c>> : t \in shorter, c \in ChunkAlphabet}

ChunkTexts == ChunkTextsUpTo(MaxTextLen)
ChunkSizes == 1..MaxTextLen

ChunkDocumentCall(content, maxChunkSize) ==
    /\ ret' = [op |-> "chunkDocument", content |-> content, maxChunkSize |-> maxChunkSize,
               chunks |-> chunkDocument(content, maxChunkSize, 0)]
    /\ UNCHANGED <<keyLog, store, now, lastSet, docs, contexts, activeGenerations, proc,
                   useFallback, chatVars>>

\* Vectors whose sums of squares are perfect squares, of two lengths
SimilarityVectors ==
    {<<0, 0>>, <<3, 4>>, <<4, 3>>, <<0, -1>>, <<0, 0, 0>>, <<2, 1, 2>>}

\* calculateSimilarity(embedding1, embedding2): it throws on vectors of
\* different lengths and returns the quotient otherwise
CalculateSimilarityCall(embedding1, embedding2) ==
    /\ ret' = IF SimilarityRaises(embedding1, embedding2)
              THEN [op |-> "calculateSimilarity", embedding1 |-> embedding1,
                    embedding2 |-> embedding2, raised |-> TRUE]
              ELSE [op |-> "calculateSimilarity", embedding1 |-> embedding1,
                    embedding2 |-> embedding2, raised |-> FALSE,
                    value |-> calculateSimilarity(embedding1, embedding2)]
    /\ UNCHANGED <<keyLog, store, now, lastSet, docs, contexts, activeGenerations, proc,
                   useFallback, chatVars>>

\* this.config.embeddingModel.dimensions
Dimensions == 1024

\* EmbeddingService.simpleHash: the 32-bit word itself, not its text
embeddingHash(str) == HashFrom(0, str)

\* Math.sin(x) * 0.1, kept as the term it is: equal arguments give equal values
SinTenth(x) == <<"sin", x>>

\* A variant of the fallback that is one entry short
generateFallbackEmbeddingShort(text) ==
    [i \in 1..(Dimensions - 1) |-> SinTenth(embeddingHash(text) + (i - 1))]

\* EmbeddingService.generateFallbackEmbedding: embedding[i] = Math.sin(hash + i) * 0.1
\* for i = 0 .. dimensions - 1
generateFallbackEmbedding(text) ==
    [i \in 1..Dimensions |-> SinTenth(embeddingHash(text) + (i - 1))]

\* What the remote endpoint does with a request: it answers with a vector
\* (possibly an empty one), answers without data[0].embedding, or the request
\* fails (network, status, timeout)
RemoteOutcomes == {"vector", "empty vector", "no embedding", "error"}

\* EmbeddingService.generateEmbedding with its configuration and the remote
\* outcome: <<raised, value>>.  An empty array is truthy and is returned.
generateEmbeddingWith(text, hasApiKey, remote) ==
    IF ~hasApiKey THEN <<FALSE, generateFallbackEmbedding(text)>>
    ELSE IF remote = "vector" THEN <<FALSE, generateEmbedding(text)>>
    ELSE IF remote = "empty vector" THEN <<FALSE, <<>> >>
    ELSE <<FALSE, generateFallbackEmbedding(text)>>

EmbeddingTexts == {<<>>, <<"a">>, <<"A", "a">>, <<"B", "B">>}

\* generateEmbedding(text); up to two calls are made in a run, the second one
\* keeps the first in view
GenerateEmbeddingCall(text, hasApiKey, remote) ==
    LET r == generateEmbeddingWith(text, hasApiKey, remote)
    IN  /\ ret' = [op |-> "generateEmbedding", text |-> text, hasApiKey |-> hasApiKey,
                   remote |-> remote, raised |-> r[1], value |-> r[2],
                   first |-> ret]
        /\ UNCHANGED <<keyLog, store, now, lastSet, docs, contexts, activeGenerations, proc,
                       useFallback, chatVars>>

NextEmbedding ==
    \/ ret = NoRet /\ \E t \in ChunkTexts, m \in ChunkSizes : ChunkDocumentCall(t, m)
    \/ ret = NoRet /\ \E a \in SimilarityVectors, b \in SimilarityVectors :
                          CalculateSimilarityCall(a, b)
    \/ /\ ret = NoRet \/ (ret.op = "generateEmbedding" /\ ret.first = NoRet)
       /\ \E t \in EmbeddingTexts, k \in BOOLEAN, r \in RemoteOutcomes :
              GenerateEmbeddingCall(t, k, r)

SpecEmbedding == Init /\ [][NextEmbedding]_vars

\* C21 (as claimed): every chunk has at most maxChunkSize characters, unless it
\* is one sentence of the text that is by itself longer than maxChunkSize.
C21_ChunkSizeBound ==
    ret.op = "chunkDocument" =>
        \A k \in 1..Len(ret.chunks) :
            \/ Len(ret.chunks[k]) <= ret.maxChunkSize
            \/ \E i \in 1..Len(Sentences(ret.content)) :
                  /\ ret.chunks[k] = trim(Sentences(ret.content)[i])
                  /\ Len(ret.chunks[k]) > ret.maxChunkSize


\* C22 (as claimed): the similarity of an all-zero vector to any vector of the
\* same length is the number 0.
C22_ZeroVectorSimilarity ==
    (/\ ret.op = "calculateSimilarity"
     /\ ~ret.raised
     /\ \A i \in 1..Len(ret.embedding1) : ret.embedding1[i] = 0) =>
        ret.value = 0


\* The calls in which generateEmbedding takes the fallback path
C23_FallbackPath(call) ==
    ~call.hasApiKey \/ call.remote \in {"no embedding", "error"}

InUnitRange(x) == ~IsNaN(x) /\ 0 <= x /\ x <= Unit

\* C24 (as claimed): every result of searchSimilarDocuments and hybridSearch has
\* a similarity score in [0, 1] and a relevance in [0, 1], also for documents
\* stored without keywords.
C24_ScoreRanges ==
    ret.op \in {"searchSimilarDocuments", "hybridSearch"} =>
        \A k \in 1..Len(ret.results) :
            /\ InUnitRange(ret.results[k].score)
            /\ InUnitRange(ret.results[k].relevance)


\* C25: a sendMessage call that names a stored chat whose status is 'archived'
\* (archived by stopChat or by a stop-keyword message) ends at once with
\* NotFoundException, and its step changes no chat, no conversation context,
\* no chat-cache entry, and starts or cancels no generation.
C25_ArchivedChatAcceptsNoMessages ==
    [][\A p \in Procs :
          (/\ sends[p].pc = "idle"
           /\ sends'[p].pc # "idle"
           /\ sends'[p].chatId \in DOMAIN chats
           /\ chats[sends'[p].chatId].status = "archived")
          => /\ sends'[p].pc = "done"
             /\ sends'[p].result = "NotFoundException"
             /\ UNCHANGED <<chats, contexts, chatCache, proc, activeGenerations>>]_vars

\* stopChat archived the chat, and a sendMessage call that named it afterwards
\* was refused
C25_Witness ==
    /\ ret.op = "stopChat"
    /\ ret.chatId = ChatOne
    /\ chats[ChatOne].status = "archived"
    /\ \E p \in Procs : /\ sends[p].pc = "done"
                        /\ sends[p].result = "NotFoundException"
                        /\ sends[p].chatId = ChatOne


\* The assistant messages of a message sequence
AssistantMessages(messages) ==
    {i \in 1..Len(messages) : messages[i].role = "assistant"}

\* C26: once stopChat(userId, chatId) has returned, no step appends an
\* assistant message to the stored chat or to the conversation context of that
\* chat, also when a sendMessage call on it was waiting for the reply.
C26_StopRespectedForInFlightReply ==
    [][(ret.op = "stopChat" /\ ret.value = "Chat stopped successfully")
          => /\ Cardinality(AssistantMessages(chats'[ret.chatId].messages))
                    = Cardinality(AssistantMessages(chats[ret.chatId].messages))
             /\ ret.chatId \in DOMAIN contexts
                    => Cardinality(AssistantMessages(contexts'[ret.chatId].messages))
                           = Cardinality(AssistantMessages(contexts[ret.chatId].messages))]_vars


C28_HybridResultShape ==
    ret.op = "hybridSearch" =>
        LET results == ret.results
        IN  /\ Len(results) <= ret.limit
            /\ \A i, j \in 1..Len(results) :
                   i < j => results[i].document.id # results[j].document.id
            /\ \A i, j \in 1..Len(results) :
                   i < j => /\ ~IsNaN(CombinedScore(results[i]))
                            /\ ~IsNaN(CombinedScore(results[j]))
                            /\ CombinedScore(results[i]) >= CombinedScore(results[j])


\* C29: addUserWellnessDocument changes no response-cache entry; a
\* searchDocuments call that finds a valid entry under its key returns the
\* results stored in it, whatever documents were added since; and no cache
\* entry ever holds the envelope of the error path (model "fallback").
C29_IngestionKeepsResponseCache ==
    /\ [][\A u \in Users, d \in UserDocInputs :
             AddUserWellnessDocument(u, d) => store' = store]_vars
    /\ [][\A q \in Requests :
             (/\ ret'.op = "searchDocuments"
              /\ ret'.request = q
              /\ get(store, SearchCacheKey(q), now)[1] # NoValue
              /\ SearchDocuments(q))
                => /\ ret'.response.results = store[SearchCacheKey(q)].value.results
                   /\ store' = store]_vars
    /\ [](\A k \in DOMAIN store : store[k].value.model # "fallback")

\* A search repeated after a matching document was added got the cached
\* results, which differ from what the search over the collection gives now
C29_Witness ==
    /\ ret.op = "searchDocuments"
    /\ Len(docs) > Len(GeneralDocs)
    /\ SearchCacheKey(ret.request) \in DOMAIN lastSet
    /\ lastSet[SearchCacheKey(ret.request)].by = ret.request
    /\ ret.response.model # "fallback"
    /\ ret.response.results # hybridSearch(docs, ret.request.query,
                                           generateEmbedding(ret.request.query),
                                           ret.request.filters, ret.request.limit)


\* C30: whenever no ChatService call is in flight, the chat list cached for a
\* user, if there is one, is the list getUserChats would compute from the
\* stored chats.
C30_ChatListCacheCoherence ==
    (\A p \in Procs : sends[p].pc \in {"idle", "done"} /\ proc[p].pc \in {"idle", "done"})
        => \A u \in GenUsers :
               ChatListKey(u) \in DOMAIN chatCache
                   => chatCache[ChatListKey(u)] = chatListOf(chats, u)

=============================================================================
